---- MODULE Spec2Model ----
(***************************************************************************)
(* A model of package pixelgl: the Window of window.go, its input          *)
(* buffers (input.go), its joystick poller and its fullscreen/windowed     *)
(* transitions, together with the part of the native layer (GLFW) that     *)
(* the Window talks to: the event queue drained by PollEvents, the native  *)
(* window geometry, the native fullscreen monitor, the native cursor and   *)
(* the joystick devices.                                                   *)
(*                                                                         *)
(* float64 values (positions, sizes, scroll offsets) are modelled as       *)
(* integers counting steps of 1/Sub of a pixel; native sizes and           *)
(* positions are whole pixels.                                             *)
(***************************************************************************)
EXTENDS Integers, Sequences, FiniteSets, TLC

VARIABLES
    tempInp,            \* w.tempInp: the pending slot, written by the callbacks
    currInp,            \* w.currInp: the slot the queries read
    prevInp,            \* w.prevInp: the slot of the previous frame
    cursorInsideWindow, \* w.cursorInsideWindow
    bounds,             \* w.bounds
    restore,            \* w.restore: xpos, ypos, width, height
    vsync,              \* w.vsync
    currJoy,            \* w.currJoy
    prevJoy,            \* w.prevJoy
    currWin,            \* the package variable currWin
    pc,                 \* where the thread that called Update stands in UpdateInput
    evq,                \* native: events queued for the next PollEvents
    natSize,            \* native: window size in pixels
    natPos,             \* native: window position in screen coordinates
    natMonitor,         \* native: handle of the fullscreen monitor, or NoMonitor
    natCursor,          \* native: the position of the last cursor warp
    natJoy,             \* native: the joystick devices
    swapInterval,       \* native: the swap interval last set
    natContext,         \* native: the window whose context is current on the main thread
    natWindows,         \* native: each window "none", "live" or "destroyed"
    lastOp,             \* history: the last operation, its arguments, the state before it
    prevOp,             \* history: the operation before lastOp (when histDepth = 2)
    histDepth           \* history: how many operations back the history looks

winVars == <<tempInp, currInp, prevInp, cursorInsideWindow, bounds, restore,
             vsync, currJoy, prevJoy, currWin, pc>>
natVars == <<evq, natSize, natPos, natMonitor, natCursor, natJoy, swapInterval,
             natContext, natWindows>>
vars == <<winVars, natVars, lastOp, prevOp, histDepth>>

(***************************************************************************)
(* Bounds of the model.                                                    *)
(***************************************************************************)
\* float64 steps per pixel
Sub == 2
\* events the native queue holds between two polls
MaxQueue == 2
\* buttons a joystick device reports at most
MaxJoyButtons == 2
\* the width and height given to NewWindow, in pixels
InitWidth == 4
InitHeight == 3

(***************************************************************************)
(* Program constants.                                                      *)
(***************************************************************************)
Release == 0
Press == 1
Repeat == 2
KeyUnknown == -1
KeySpace == 32
KeyLast == 348
MouseButton1 == 0
MouseButtonLast == 7
Joystick1 == 0
JoystickLast == 15
GlfwFalse == 0
GlfwTrue == 1
NoMonitor == 0
NoWindow == 0
TheWindow == 1
OtherWindow == 2

(***************************************************************************)
(* pixel.Vec and pixel.Rect.                                               *)
(***************************************************************************)
V(x, y) == [X |-> x, Y |-> y]
ZV == V(0, 0)
R(minX, minY, maxX, maxY) == [Min |-> V(minX, minY), Max |-> V(maxX, maxY)]
RectW(r) == r.Max.X - r.Min.X
RectH(r) == r.Max.Y - r.Min.Y
ResizedMin(r, size) == [Min |-> r.Min, Max |-> V(r.Min.X + size.X, r.Min.Y + size.Y)]
\* float64(n) of a whole number of pixels
Float(n) == n * Sub
\* the nearest whole number to x/Sub, for x >= 0
Round(x) == (2 * x + Sub) \div (2 * Sub)
\* intBounds: the integer pixel size of a rectangle
IntSize(r) == [W |-> Round(RectW(r)), H |-> Round(RectH(r))]

(***************************************************************************)
(* inputState and the callbacks of initInput.                              *)
(***************************************************************************)
\* the zero inputState; buttons and repeat are the sets of codes whose flag is true
ZeroInput == [mouse |-> ZV, buttons |-> {}, repeat |-> {}, scroll |-> ZV, typed |-> <<>>]

\* string(r): the UTF-8 bytes of rune r (r < 2048)
RuneString(r) ==
    IF r < 128 THEN <<r>> ELSE <<192 + (r \div 64), 128 + (r % 64)>>

\* a mouse button callback that takes every action for a press
MouseButtonCallbackPressOnly(inp, button, action) ==
    [inp EXCEPT !.buttons = @ \cup {button}]

MouseButtonCallback(inp, button, action) ==
    CASE action = Press   -> [inp EXCEPT !.buttons = @ \cup {button}]
      [] action = Release -> [inp EXCEPT !.buttons = @ \ {button}]
      [] OTHER            -> inp

\* a key callback that takes no release
KeyCallbackNoRelease(inp, key, action) ==
    IF key = KeyUnknown THEN inp
    ELSE CASE action = Press   -> [inp EXCEPT !.buttons = @ \cup {key}]
           [] action = Repeat  -> [inp EXCEPT !.repeat = @ \cup {key}]
           [] OTHER            -> inp

KeyCallback(inp, key, action) ==
    IF key = KeyUnknown THEN inp
    ELSE CASE action = Press   -> [inp EXCEPT !.buttons = @ \cup {key}]
           [] action = Release -> [inp EXCEPT !.buttons = @ \ {key}]
           [] action = Repeat  -> [inp EXCEPT !.repeat = @ \cup {key}]
           [] OTHER            -> inp

\* a cursor-position callback that keeps the Y axis pointing down
CursorPosCallbackNoFlip(inp, b, x, y) ==
    [inp EXCEPT !.mouse = V(x + b.Min.X, y + b.Min.Y)]

CursorPosCallback(inp, b, x, y) ==
    [inp EXCEPT !.mouse = V(x + b.Min.X, (RectH(b) - y) + b.Min.Y)]

\* a scroll callback that overwrites the accumulator
ScrollCallbackAssigns(inp, xoff, yoff) ==
    [inp EXCEPT !.scroll = V(xoff, yoff)]

ScrollCallback(inp, xoff, yoff) ==
    [inp EXCEPT !.scroll = V(@.X + xoff, @.Y + yoff)]

CharCallback(inp, r) ==
    [inp EXCEPT !.typed = @ \o RuneString(r)]

\* native events
MouseEv(button, action) == [type |-> "mouse", code |-> button, action |-> action]
KeyEv(key, action) == [type |-> "key", code |-> key, action |-> action]
CursorEv(x, y) == [type |-> "cursor", x |-> x, y |-> y]
EnterEv(entered) == [type |-> "enter", entered |-> entered]
ScrollEv(xoff, yoff) == [type |-> "scroll", x |-> xoff, y |-> yoff]
CharEv(r) == [type |-> "char", r |-> r]

\* one event delivered to the callback registered for it; st = [inp, inside]
Dispatch(st, b, e) ==
    CASE e.type = "mouse"  -> [st EXCEPT !.inp = MouseButtonCallback(@, e.code, e.action)]
      [] e.type = "key"    -> [st EXCEPT !.inp = KeyCallback(@, e.code, e.action)]
      [] e.type = "cursor" -> [st EXCEPT !.inp = CursorPosCallback(@, b, e.x, e.y)]
      [] e.type = "enter"  -> [st EXCEPT !.inside = e.entered]
      [] e.type = "scroll" -> [st EXCEPT !.inp = ScrollCallback(@, e.x, e.y)]
      [] e.type = "char"   -> [st EXCEPT !.inp = CharCallback(@, e.r)]

\* glfw.PollEvents: the queued events delivered in order
RECURSIVE PollEvents(_, _, _)
PollEvents(st, b, q) ==
    IF q = <<>> THEN st ELSE PollEvents(Dispatch(st, b, Head(q)), b, Tail(q))

\* a rotation whose first two assignments are exchanged
RotateCurrentFirst(prev, curr, temp) ==
    [prevInp |-> temp,
     currInp |-> temp,
     tempInp |-> [temp EXCEPT !.repeat = {}, !.scroll = ZV, !.typed = <<>>]]

\* a rotation that leaves the repeat flags in the pending slot
RotateKeepsRepeat(prev, curr, temp) ==
    [prevInp |-> curr,
     currInp |-> temp,
     tempInp |-> [temp EXCEPT !.scroll = ZV, !.typed = <<>>]]

\* a rotation that starts the pending slot with no button down
RotateClearsButtons(prev, curr, temp) ==
    [prevInp |-> curr,
     currInp |-> temp,
     tempInp |-> [temp EXCEPT !.buttons = {}, !.repeat = {}, !.scroll = ZV, !.typed = <<>>]]

\* the rotation of UpdateInput; the result holds the three slots
Rotate(prev, curr, temp) ==
    [prevInp |-> curr,
     currInp |-> temp,
     tempInp |-> [temp EXCEPT !.repeat = {}, !.scroll = ZV, !.typed = <<>>]]

(***************************************************************************)
(* joystickState and updateJoystickInput.                                  *)
(***************************************************************************)
JoySlots == Joystick1..JoystickLast
ZeroJoy == [connected |-> FALSE, name |-> "", buttons |-> <<>>, axes |-> <<>>]
\* a slot of the native layer with no gamepad in it
NoDevice == [gamepad |-> FALSE, name |-> "", buttons |-> <<>>, axes |-> <<>>]

\* An array [JoystickLast + 1]joystickState is kept as the function from the
\* slots whose state is not the zero value to their state: JoyAt reads a slot,
\* JoyPut writes one.  The devices of the native layer are kept the same way.
ZeroJoys == [js \in {} |-> ZeroJoy]
JoyAt(arr, js) == IF js \in DOMAIN arr THEN arr[js] ELSE ZeroJoy
JoyPut(arr, js, v) ==
    IF v = ZeroJoy THEN [k \in DOMAIN arr \ {js} |-> arr[k]]
    ELSE [k \in DOMAIN arr \cup {js} |-> IF k = js THEN v ELSE arr[k]]
DeviceAt(nat, js) == IF js \in DOMAIN nat THEN nat[js] ELSE NoDevice

\* joystickState.getButton: indices count from 0
getButton(js, button) ==
    IF button >= Len(js.buttons) \/ button < 0 THEN FALSE
    ELSE js.buttons[button + 1] = Press

\* joystickState.getAxis
getAxis(js, axis) ==
    IF axis >= Len(js.axes) \/ axis < 0 THEN 0
    ELSE js.axes[axis + 1]

\* a loop body that, for a slot without gamepad, only clears the connected flag
JoyStepKeepsState(st, nat, js) ==
    LET old == JoyAt(st.currJoy, js)
        dev == DeviceAt(nat, js)
    IN  [prevJoy |-> st.currJoy,
         currJoy |->
            IF dev.gamepad
            THEN JoyPut(st.currJoy, js,
                        [connected |-> TRUE,
                         name      |-> IF old.connected THEN old.name ELSE dev.name,
                         buttons   |-> dev.buttons,
                         axes      |-> dev.axes])
            ELSE IF old.connected THEN JoyPut(st.currJoy, js, [old EXCEPT !.connected = FALSE])
                 ELSE st.currJoy]

\* the body of the loop of updateJoystickInput for slot js; st = [prevJoy, currJoy]
JoyStep(st, nat, js) ==
    LET old == JoyAt(st.currJoy, js)
        dev == DeviceAt(nat, js)
    IN  [prevJoy |-> st.currJoy,
         currJoy |->
            IF dev.gamepad
            THEN JoyPut(st.currJoy, js,
                        [connected |-> TRUE,
                         name      |-> IF old.connected THEN old.name ELSE dev.name,
                         buttons   |-> dev.buttons,
                         axes      |-> dev.axes])
            ELSE IF old.connected THEN JoyPut(st.currJoy, js, ZeroJoy)
                 ELSE st.currJoy]

RECURSIVE JoyLoop(_, _, _)
JoyLoop(st, nat, js) ==
    IF js > JoystickLast THEN st ELSE JoyLoop(JoyStep(st, nat, js), nat, js + 1)

updateJoystickInput(prev, curr, nat) ==
    JoyLoop([prevJoy |-> prev, currJoy |-> curr], nat, Joystick1)

(***************************************************************************)
(* The queries of input.go.                                                *)
(***************************************************************************)
Pressed(button) == button \in currInp.buttons
JustPressed(button) == button \in currInp.buttons /\ button \notin prevInp.buttons
JustReleased(button) == button \notin currInp.buttons /\ button \in prevInp.buttons
Repeated(button) == button \in currInp.repeat
MousePosition == currInp.mouse
MousePreviousPosition == prevInp.mouse
MouseInsideWindow == cursorInsideWindow
MouseScroll == currInp.scroll
Typed == currInp.typed
JoystickPresent(js) == JoyAt(currJoy, js).connected
JoystickName(js) == JoyAt(currJoy, js).name
JoystickButtonCount(js) == Len(JoyAt(currJoy, js).buttons)
JoystickAxisCount(js) == Len(JoyAt(currJoy, js).axes)
JoystickPressed(js, button) == getButton(JoyAt(currJoy, js), button)
JoystickJustPressed(js, button) ==
    getButton(JoyAt(currJoy, js), button) /\ ~getButton(JoyAt(prevJoy, js), button)
JoystickJustReleased(js, button) ==
    ~getButton(JoyAt(currJoy, js), button) /\ getButton(JoyAt(prevJoy, js), button)
JoystickAxis(js, axis) == getAxis(JoyAt(currJoy, js), axis)
Bounds == bounds

(***************************************************************************)
(* Monitors.  A *Monitor is NilMonitor or an object with an address and    *)
(* the native handle it wraps.                                             *)
(***************************************************************************)
NilMonitor == [addr |-> "nil", monitor |-> NoMonitor]
\* the *Monitor values the caller holds: two objects wrap handle 1, one wraps 2
CallerMonitors ==
    {[addr |-> "a", monitor |-> 1], [addr |-> "b", monitor |-> 1],
     [addr |-> "c", monitor |-> 2]}
\* monitor.GetVideoMode() and the monitor's place on the virtual screen
VideoMode(h) ==
    IF h = 1 THEN [Width |-> 8, Height |-> 6] ELSE [Width |-> 6, Height |-> 5]
MonitorPos(h) == IF h = 1 THEN [x |-> 0, y |-> 0] ELSE [x |-> 8, y |-> 0]

\* Window.Monitor: a newly allocated Monitor around the native handle, or nil
WindowMonitor(nat) ==
    IF nat = NoMonitor THEN NilMonitor ELSE [addr |-> "new", monitor |-> nat]

\* a test that always finds another monitor
MonitorDiffersAlways(nat, monitor) == TRUE

\* the test of Window.SetMonitor: w.Monitor() != monitor compares two pointers
MonitorDiffers(nat, monitor) == WindowMonitor(nat) # monitor

\* the native state after glfw's Window.SetMonitor(monitor, x, y, width, height, rate)
NatSetMonitor(monitor, x, y, width, height) ==
    [natMonitor |-> monitor,
     natPos     |-> IF monitor = NoMonitor THEN [x |-> x, y |-> y] ELSE MonitorPos(monitor),
     natSize    |-> [W |-> width, H |-> height]]

\* Window.setFullscreen: the restore record and the native state it leaves
setFullscreen(monitor, pos, size) ==
    [restore |-> [xpos |-> pos.x, ypos |-> pos.y, width |-> size.W, height |-> size.H],
     nat     |-> NatSetMonitor(monitor.monitor, 0, 0,
                               VideoMode(monitor.monitor).Width,
                               VideoMode(monitor.monitor).Height)]

\* a setWindowed that restores the size and not the position
setWindowedAtOrigin(rst) ==
    [restore |-> rst,
     nat     |-> NatSetMonitor(NoMonitor, 0, 0, rst.width, rst.height)]

\* Window.setWindowed
setWindowed(rst) ==
    [restore |-> rst,
     nat     |-> NatSetMonitor(NoMonitor, rst.xpos, rst.ypos, rst.width, rst.height)]

(***************************************************************************)
(* SetMousePosition.                                                       *)
(***************************************************************************)
\* a test that forgets the lower limits
MouseAcceptedNoLowerLimit(b, v) ==
    v.X <= RectW(b) /\ v.Y <= RectH(b)

\* the test of SetMousePosition
MouseAccepted(b, v) ==
    (v.X >= 0 /\ v.X <= RectW(b)) /\ (v.Y >= 0 /\ v.Y <= RectH(b))

\* the arguments of w.window.SetCursorPos
WarpTarget(b, v) == V(v.X + b.Min.X, (RectH(b) - v.Y) + b.Min.Y)

\* a write that leaves the pending slot out
ForceMouseNotPending(prev, curr, temp, v) ==
    [prevInp |-> [prev EXCEPT !.mouse = v],
     currInp |-> [curr EXCEPT !.mouse = v],
     tempInp |-> temp]

\* the three writes of SetMousePosition
ForceMouse(prev, curr, temp, v) ==
    [prevInp |-> [prev EXCEPT !.mouse = v],
     currInp |-> [curr EXCEPT !.mouse = v],
     tempInp |-> [temp EXCEPT !.mouse = v]]

\* bounds taken from the native size alone, with the minimum corner at the origin
UpdateBoundsFromOrigin(b, size) == R(0, 0, Float(size.W), Float(size.H))

\* bounds that Update leaves as they are
UpdateBoundsStale(b, size) == b

\* the bounds Update derives from the native size
UpdateBounds(b, size) ==
    ResizedMin(b, V(RectW(b) + Float(size.W - IntSize(b).W),
                    RectH(b) + Float(size.H - IntSize(b).H)))

\* int(x) of a float64: truncation toward zero
Trunc(x) == IF x >= 0 THEN x \div Sub ELSE -((-x) \div Sub)

(***************************************************************************)
(* History.                                                                *)
(***************************************************************************)
\* An operation is recorded with its name, its arguments, the native calls it
\* issued (calls) and the values, before it, of the variables the properties
\* below compare with (pre).
\* the windows of the program
Windows == {TheWindow, OtherWindow}

NoOp == [op |-> "none"]

Hist(op) ==
    /\ lastOp' = op
    /\ prevOp' = IF histDepth = 2 THEN lastOp ELSE NoOp
    /\ UNCHANGED histDepth

\* the sequences over S of length at most n
BSeq(S, n) == UNION {[1..k -> S] : k \in 0..n}

(***************************************************************************)
(* The state after NewWindow(InitWidth, InitHeight) with the default       *)
(* options: windowed, one Update done, no event and no gamepad yet.        *)
(***************************************************************************)
InitState(depth) ==
    /\ tempInp = ZeroInput
    /\ currInp = ZeroInput
    /\ prevInp = ZeroInput
    /\ cursorInsideWindow = FALSE
    /\ bounds = UpdateBounds(R(0, 0, 0, 0), [W |-> InitWidth, H |-> InitHeight])
    /\ restore = [xpos |-> 0, ypos |-> 0, width |-> 0, height |-> 0]
    /\ vsync = FALSE
    /\ currJoy = ZeroJoys
    /\ prevJoy = ZeroJoys
    /\ currWin = TheWindow
    /\ pc = "idle"
    /\ natContext = TheWindow
    /\ natWindows = [w \in Windows |-> IF w = TheWindow THEN "live" ELSE "none"]
    /\ evq = <<>>
    /\ natSize = [W |-> InitWidth, H |-> InitHeight]
    /\ natPos = [x |-> 1, y |-> 2]
    /\ natMonitor = NoMonitor
    /\ natCursor = ZV
    /\ natJoy = [js \in {} |-> NoDevice]
    /\ swapInterval = 0
    /\ lastOp = [op |-> "NewWindow"]
    /\ prevOp = NoOp
    /\ histDepth = depth

(***************************************************************************)
(* The operations of the Window.                                           *)
(***************************************************************************)
\* a swap interval that is on whatever the flag
SwapIntervalAlwaysOn(flag) == 1

\* the argument of glfw.SwapInterval in Update for the vsync flag
SwapIntervalOf(flag) == IF flag THEN 1 ELSE 0

\* a begin that binds the context and leaves currWin as it was
beginForgetsRecord(cw, ctx, w) ==
    IF cw # w THEN [currWin |-> cw, context |-> w, made |-> TRUE]
    ELSE [currWin |-> cw, context |-> ctx, made |-> FALSE]

\* Window.begin of window w, with currWin = cw and the context of ctx bound:
\* the new currWin, the context bound afterwards, and whether
\* MakeContextCurrent was called
begin(cw, ctx, w) ==
    IF cw # w THEN [currWin |-> w, context |-> w, made |-> TRUE]
    ELSE [currWin |-> cw, context |-> ctx, made |-> FALSE]

\* Window.Update, whose poll delivers the queued events and then a sequence of
\* new events drawn from Q
Update(Q) ==
    \E nb \in {UpdateBounds(bounds, natSize)} :
    \E joy \in {updateJoystickInput(prevJoy, currJoy, natJoy)} :
    \E q \in Q :
    \E st \in {PollEvents([inp |-> tempInp, inside |-> cursorInsideWindow], nb, evq \o q)} :
    \E rot \in {Rotate(prevInp, currInp, st.inp)} :
    \E bg \in {begin(currWin, natContext, TheWindow)} :
        /\ bounds' = nb
        /\ currWin' = bg.currWin
        /\ natContext' = bg.context
        /\ UNCHANGED natWindows
        /\ UNCHANGED pc
        /\ swapInterval' = SwapIntervalOf(vsync)
        /\ evq' = <<>>
        /\ cursorInsideWindow' = st.inside
        /\ prevInp' = rot.prevInp
        /\ currInp' = rot.currInp
        /\ tempInp' = rot.tempInp
        /\ prevJoy' = joy.prevJoy
        /\ currJoy' = joy.currJoy
        /\ UNCHANGED <<restore, vsync, natSize, natPos, natMonitor, natCursor, natJoy>>
        /\ Hist([op |-> "Update", polled |-> evq \o q, afterPoll |-> st.inp,
                 made |-> bg.made,
                 pre |-> [currInp |-> currInp, tempInp |-> tempInp,
                          currJoy |-> currJoy, bounds |-> bounds, currWin |-> currWin]])

\* Window.SetMousePosition(v); echo: the native layer queues a cursor-position
\* event for the warp (it does on some platforms)
SetMousePosition(v, echo) ==
    LET ok     == MouseAccepted(bounds, v)
        target == WarpTarget(bounds, v)
        forced == ForceMouse(prevInp, currInp, tempInp, v)
    IN  /\ echo => (ok /\ Len(evq) < MaxQueue)
        /\ IF ok
           THEN /\ natCursor' = target
                /\ prevInp' = forced.prevInp
                /\ currInp' = forced.currInp
                /\ tempInp' = forced.tempInp
                /\ evq' = IF echo THEN Append(evq, CursorEv(target.X, target.Y)) ELSE evq
           ELSE UNCHANGED <<natCursor, prevInp, currInp, tempInp, evq>>
        /\ UNCHANGED <<cursorInsideWindow, bounds, restore, vsync, currJoy, prevJoy,
                       currWin, pc, natSize, natPos, natMonitor, natJoy, swapInterval,
                       natContext, natWindows>>
        /\ Hist([op |-> "SetMousePosition", v |-> v,
                 pre |-> [prevInp |-> prevInp, currInp |-> currInp, tempInp |-> tempInp,
                          natCursor |-> natCursor, evq |-> evq, bounds |-> bounds],
                 calls |-> IF ok THEN <<"SetCursorPos">> ELSE <<>>])

\* a SetBounds that stores the rectangle with its size rounded to whole pixels
SetBoundsRounded(r) ==
    /\ bounds' = ResizedMin(r, V(Float(IntSize(r).W), Float(IntSize(r).H)))
    /\ natSize' = IntSize(r)
    /\ UNCHANGED <<tempInp, currInp, prevInp, cursorInsideWindow, restore, vsync,
                   currJoy, prevJoy, currWin, pc, evq, natPos, natMonitor, natCursor,
                   natJoy, swapInterval, natContext, natWindows>>
    /\ Hist([op |-> "SetBounds", r |-> r, calls |-> <<"SetSize">>,
             pre |-> [bounds |-> bounds, natSize |-> natSize]])

\* Window.SetBounds(r)
SetBounds(r) ==
    /\ bounds' = r
    /\ natSize' = IntSize(r)
    /\ UNCHANGED <<tempInp, currInp, prevInp, cursorInsideWindow, restore, vsync,
                   currJoy, prevJoy, currWin, pc, evq, natPos, natMonitor, natCursor,
                   natJoy, swapInterval, natContext, natWindows>>
    /\ Hist([op |-> "SetBounds", r |-> r, calls |-> <<"SetSize">>,
             pre |-> [bounds |-> bounds, natSize |-> natSize]])

\* a SetPos whose native call moves a fullscreen window too
SetPosMovesFullscreen(pos) ==
    /\ natPos' = [x |-> Trunc(pos.X), y |-> Trunc(pos.Y)]
    /\ UNCHANGED <<winVars, natContext, natWindows, evq, natSize, natMonitor, natCursor, natJoy, swapInterval>>
    /\ Hist([op |-> "SetPos", pos |-> pos, calls |-> <<"SetPos">>,
             pre |-> [natPos |-> natPos, natMonitor |-> natMonitor, natSize |-> natSize,
                      restore |-> restore, bounds |-> bounds]])

\* Window.SetPos(pos); the native layer ignores the call for a fullscreen window
SetPos(pos) ==
    /\ natPos' = IF natMonitor = NoMonitor
                 THEN [x |-> Trunc(pos.X), y |-> Trunc(pos.Y)] ELSE natPos
    /\ UNCHANGED <<winVars, natContext, natWindows, evq, natSize, natMonitor, natCursor, natJoy, swapInterval>>
    /\ Hist([op |-> "SetPos", pos |-> pos, calls |-> <<"SetPos">>,
             pre |-> [natPos |-> natPos, natMonitor |-> natMonitor, natSize |-> natSize,
                      restore |-> restore, bounds |-> bounds]])

\* Window.SetMonitor(monitor)
SetMonitor(monitor) ==
    LET differs == MonitorDiffers(natMonitor, monitor)
        res     == IF monitor # NilMonitor
                   THEN setFullscreen(monitor, natPos, natSize)
                   ELSE setWindowed(restore)
    IN  /\ IF differs
           THEN /\ restore' = res.restore
                /\ natMonitor' = res.nat.natMonitor
                /\ natPos' = res.nat.natPos
                /\ natSize' = res.nat.natSize
           ELSE UNCHANGED <<restore, natMonitor, natPos, natSize>>
        /\ UNCHANGED <<tempInp, currInp, prevInp, cursorInsideWindow, bounds, vsync,
                       currJoy, prevJoy, currWin, pc, evq, natCursor, natJoy, swapInterval,
                       natContext, natWindows>>
        /\ Hist([op |-> "SetMonitor", monitor |-> monitor,
                 pre |-> [restore |-> restore, natMonitor |-> natMonitor,
                          natPos |-> natPos, natSize |-> natSize],
                 calls |-> <<"GetMonitor">> \o
                           (IF ~differs THEN <<>>
                            ELSE IF monitor # NilMonitor
                                 THEN <<"GetPos", "GetSize", "GetVideoMode", "SetMonitor">>
                                 ELSE <<"SetMonitor">>)])

\* Window.SetVSync(x)
SetVSync(x) ==
    /\ vsync' = x
    /\ UNCHANGED <<tempInp, currInp, prevInp, cursorInsideWindow, bounds, restore,
                   currJoy, prevJoy, currWin, pc, natVars>>
    /\ Hist([op |-> "SetVSync", vsync |-> x, calls |-> <<>>,
             pre |-> [vsync |-> vsync, swapInterval |-> swapInterval]])

\* the button codes the queries are asked about
QueryCodes == {MouseButton1, MouseButtonLast, KeySpace, KeyLast}

\* what the queries of the current and the previous slot answer
Answers ==
    [Pressed               |-> {b \in QueryCodes : Pressed(b)},
     JustPressed           |-> {b \in QueryCodes : JustPressed(b)},
     JustReleased          |-> {b \in QueryCodes : JustReleased(b)},
     Repeated              |-> {b \in QueryCodes : Repeated(b)},
     MousePosition         |-> MousePosition,
     MousePreviousPosition |-> MousePreviousPosition,
     MouseScroll           |-> MouseScroll,
     Typed                 |-> Typed]

\* the callbacks delivered since the last rotation, counted in the history
Delivered == IF lastOp.op = "Callback" THEN lastOp.n ELSE 0

\* a callback that writes into the current slot
CallbackOnCurrent(e) ==
    \E st \in {Dispatch([inp |-> currInp, inside |-> cursorInsideWindow], bounds, e)} :
        /\ Delivered < MaxQueue
        /\ currInp' = st.inp
        /\ cursorInsideWindow' = st.inside
        /\ UNCHANGED <<tempInp, prevInp, bounds, restore, vsync, currJoy, prevJoy, currWin,
                       pc, natVars>>
        /\ Hist([op |-> "Callback", e |-> e, n |-> Delivered + 1,
                 pre |-> [tempInp |-> tempInp, answers |-> Answers]])

\* One callback of initInput, called by the native layer for event e outside an
\* Update of this Window: glfw.PollEvents delivers the events of every window,
\* so the Update of another Window runs the callbacks of this one.
Callback(e) ==
    \E st \in {Dispatch([inp |-> tempInp, inside |-> cursorInsideWindow], bounds, e)} :
        /\ Delivered < MaxQueue
        /\ tempInp' = st.inp
        /\ cursorInsideWindow' = st.inside
        /\ UNCHANGED <<currInp, prevInp, bounds, restore, vsync, currJoy, prevJoy, currWin,
                       pc, natVars>>
        /\ Hist([op |-> "Callback", e |-> e, n |-> Delivered + 1,
                 pre |-> [tempInp |-> tempInp, answers |-> Answers]])

\* An index into inputState.buttons or inputState.repeat, arrays of KeyLast + 1
\* flags, fails outside 0..KeyLast: the program panics.
IndexPanics(button) == button < 0 \/ button > KeyLast

\* how a call of the query named name ends: with a panic when the index
\* expression fails, and with the boolean it returns otherwise
QueryResult(name, button) ==
    IF IndexPanics(button) THEN [panic |-> TRUE, value |-> FALSE]
    ELSE [panic |-> FALSE,
          value |-> CASE name = "Pressed"      -> Pressed(button)
                      [] name = "JustPressed"  -> JustPressed(button)
                      [] name = "JustReleased" -> JustReleased(button)
                      [] name = "Repeated"     -> Repeated(button)]

\* the program has panicked
Crashed == lastOp.op \in {"Pressed", "JustPressed", "JustReleased", "Repeated"}
           /\ lastOp.result.panic

\* the program calls Pressed, JustPressed, JustReleased or Repeated
Query(name, button) ==
    /\ UNCHANGED <<winVars, natVars>>
    /\ Hist([op |-> name, button |-> button, result |-> QueryResult(name, button)])

\* defaultOptions, of the fields that become window hints or the vsync flag
defaultOptions ==
    [resizable |-> GlfwFalse, decorated |-> GlfwTrue, noIconify |-> GlfwFalse,
     alwaysOnTop |-> FALSE, vsync |-> FALSE, transparentFramebuffer |-> GlfwFalse]

\* the option function named name, applied to the options o
ApplyOption(o, name) ==
    CASE name = "Resizable"                -> [o EXCEPT !.resizable = GlfwTrue]
      [] name = "Undecorated"              -> [o EXCEPT !.decorated = GlfwFalse]
      [] name = "NoIconify"                -> [o EXCEPT !.noIconify = GlfwTrue]
      [] name = "AlwaysOnTop"              -> [o EXCEPT !.alwaysOnTop = TRUE]
      [] name = "VSyncEnabled"             -> [o EXCEPT !.vsync = TRUE]
      [] name = "TransparentWindowEnabled" -> [o EXCEPT !.transparentFramebuffer = GlfwTrue]

\* the loop of NewWindow over its options
RECURSIVE ApplyOptions(_, _)
ApplyOptions(o, names) ==
    IF names = <<>> THEN o ELSE ApplyOptions(ApplyOption(o, Head(names)), Tail(names))

\* the window hints NewWindow gives the native layer for the options o
WindowHints(o) ==
    [Resizable              |-> o.resizable,
     Decorated              |-> o.decorated,
     Floating               |-> o.decorated,
     AutoIconify            |-> o.noIconify,
     TransparentFramebuffer |-> o.transparentFramebuffer]

\* a test that takes every creation for a success
CreationFailedNever(cause) == FALSE

\* the tests err != nil of NewWindow; cause is the error of glfw.CreateWindow,
\* the empty string for nil
CreationFailed(cause) == cause # ""

\* errors.Wrap(err, "creating window failed"): the message and the cause
WrapError(cause) == <<"creating window failed", cause>>

\* a Window has been created
Created == natWindows[TheWindow] = "live"

\* NewWindow(size.W, size.H, opts...), the options given by their names.
\* glfw.CreateWindow fails with cause, or gives a window of the size asked for;
\* the poll of the Update that ends NewWindow delivers the events q.  The
\* history keeps the window hints, the steps that ran and the two results.
NewWindow(size, opts, cause, q) ==
    \E o \in {ApplyOptions(defaultOptions, opts)} :
    /\ natWindows[TheWindow] = "none"
    /\ IF CreationFailed(cause)
       THEN /\ UNCHANGED <<winVars, natVars>>
            /\ Hist([op |-> "NewWindow", size |-> size, cause |-> cause, polled |-> <<>>,
                     opts |-> opts, hints |-> WindowHints(o),
                     w |-> NoWindow, err |-> WrapError(cause), made |-> FALSE,
                     share |-> currWin,
                     steps |-> <<"WindowHint", "CreateWindow">>,
                     pre |-> [currWin |-> currWin, natWindows |-> natWindows]])
       ELSE \E nb \in {UpdateBounds(R(0, 0, 0, 0), size)} :
            \E joy \in {updateJoystickInput(ZeroJoys, ZeroJoys, natJoy)} :
            \E st \in {PollEvents([inp |-> ZeroInput, inside |-> FALSE], nb, q)} :
            \E rot \in {Rotate(ZeroInput, ZeroInput, st.inp)} :
            \E bg \in {begin(currWin, natContext, TheWindow)} :
                /\ natSize' = size
                /\ natPos' = [x |-> 1, y |-> 2]
                /\ natMonitor' = NoMonitor
                /\ vsync' = o.vsync
                /\ restore' = [xpos |-> 0, ypos |-> 0, width |-> 0, height |-> 0]
                /\ bounds' = nb
                /\ currWin' = bg.currWin
                /\ natContext' = bg.context
                /\ natWindows' = [natWindows EXCEPT ![TheWindow] = "live"]
                /\ UNCHANGED pc
                /\ swapInterval' = SwapIntervalOf(o.vsync)
                /\ evq' = <<>>
                /\ cursorInsideWindow' = st.inside
                /\ prevInp' = rot.prevInp
                /\ currInp' = rot.currInp
                /\ tempInp' = rot.tempInp
                /\ prevJoy' = joy.prevJoy
                /\ currJoy' = joy.currJoy
                /\ UNCHANGED <<natCursor, natJoy>>
                /\ Hist([op |-> "NewWindow", size |-> size, cause |-> cause, polled |-> q,
                         opts |-> opts, hints |-> WindowHints(o),
                         w |-> TheWindow, err |-> <<>>, made |-> bg.made,
                         share |-> currWin,
                         steps |-> <<"WindowHint", "CreateWindow", "begin", "glhf.Init",
                                     "end", "SetVSync", "initInput", "SetMonitor",
                                     "NewCanvas", "Update", "SetFinalizer">>,
                         pre |-> [currWin |-> currWin, natWindows |-> natWindows]])

(***************************************************************************)
(* The environment.                                                        *)
(***************************************************************************)
\* The program creates another window: NewWindow runs begin for it.
OtherNewWindow ==
    \E bg \in {begin(currWin, natContext, OtherWindow)} :
        /\ natWindows[OtherWindow] = "none"
        /\ currWin' = bg.currWin
        /\ natContext' = bg.context
        /\ natWindows' = [natWindows EXCEPT ![OtherWindow] = "live"]
        /\ UNCHANGED <<tempInp, currInp, prevInp, cursorInsideWindow, bounds, restore,
                       vsync, currJoy, prevJoy, pc, evq, natSize, natPos, natMonitor,
                       natCursor, natJoy, swapInterval>>
        /\ Hist([op |-> "OtherNewWindow", made |-> bg.made, share |-> currWin,
                 pre |-> [currWin |-> currWin, natWindows |-> natWindows]])

\* The program updates another window, whose vsync flag is flag: Update runs
\* begin for it and sets the swap interval, and its glfw.PollEvents delivers
\* the events q of this Window to the callbacks of this Window.
OtherUpdate(flag, Q) ==
    \E bg \in {begin(currWin, natContext, OtherWindow)} :
    \E q \in Q :
    \E st \in {PollEvents([inp |-> tempInp, inside |-> cursorInsideWindow], bounds, evq \o q)} :
        /\ natWindows[OtherWindow] = "live"
        /\ currWin' = bg.currWin
        /\ natContext' = bg.context
        /\ UNCHANGED natWindows
        /\ swapInterval' = SwapIntervalOf(flag)
        /\ tempInp' = st.inp
        /\ cursorInsideWindow' = st.inside
        /\ evq' = <<>>
        /\ UNCHANGED <<currInp, prevInp, bounds, restore, vsync, currJoy, prevJoy, pc,
                       natSize, natPos, natMonitor, natCursor, natJoy>>
        /\ Hist([op |-> "OtherUpdate", made |-> bg.made, polled |-> evq \o q,
                 pre |-> [currWin |-> currWin, pc |-> pc]])

\* the context current on the main thread after glfw's Window.Destroy of
\* window w: the context of w is detached if it is the current one
NatDestroy(ctx, w) == IF ctx = w THEN NoWindow ELSE ctx

\* Window.Destroy
Destroy ==
    /\ natWindows[TheWindow] = "live"
    /\ pc = "idle"
    /\ natWindows' = [natWindows EXCEPT ![TheWindow] = "destroyed"]
    /\ natContext' = NatDestroy(natContext, TheWindow)
    /\ UNCHANGED <<winVars, evq, natSize, natPos, natMonitor, natCursor, natJoy,
                   swapInterval>>
    /\ Hist([op |-> "Destroy", calls |-> <<"Destroy">>, pre |-> [currWin |-> currWin]])

\* The program destroys the other window.
OtherDestroy ==
    /\ natWindows[OtherWindow] = "live"
    /\ natWindows' = [natWindows EXCEPT ![OtherWindow] = "destroyed"]
    /\ natContext' = NatDestroy(natContext, OtherWindow)
    /\ UNCHANGED <<winVars, evq, natSize, natPos, natMonitor, natCursor, natJoy,
                   swapInterval>>
    /\ Hist([op |-> "OtherDestroy", calls |-> <<"Destroy">>, pre |-> [currWin |-> currWin]])

\* Window.end of the implementation of part_000: glfw.DetachCurrentContext()
endPart000(ctx) == NoWindow

\* NewWindow(size.W, size.H) of part_000 with no option: begin, glhf.Init and
\* end in the closure that creates the window, and an Update at the end
NewWindowPart000(size, cause, q) ==
    /\ natWindows[TheWindow] = "none"
    /\ IF CreationFailed(cause)
       THEN /\ UNCHANGED <<winVars, natVars>>
            /\ Hist([op |-> "NewWindowPart000", w |-> NoWindow, err |-> WrapError(cause),
                     share |-> currWin, polled |-> <<>>, bound |-> FALSE,
                     pre |-> [currWin |-> currWin, natContext |-> natContext]])
       ELSE \E joy \in {updateJoystickInput(ZeroJoys, ZeroJoys, natJoy)} :
            \E st \in {PollEvents([inp |-> ZeroInput, inside |-> FALSE],
                                   R(0, 0, Float(size.W), Float(size.H)), q)} :
            \E rot \in {Rotate(ZeroInput, ZeroInput, st.inp)} :
            \E bg \in {begin(currWin, natContext, TheWindow)} :
            \E bu \in {begin(bg.currWin, endPart000(bg.context), TheWindow)} :
                /\ natWindows' = [natWindows EXCEPT ![TheWindow] = "live"]
                /\ natSize' = size
                /\ natPos' = [x |-> 1, y |-> 2]
                /\ natMonitor' = NoMonitor
                /\ vsync' = defaultOptions.vsync
                /\ restore' = [xpos |-> 0, ypos |-> 0, width |-> 0, height |-> 0]
                /\ bounds' = R(0, 0, Float(size.W), Float(size.H))
                /\ currWin' = bu.currWin
                /\ natContext' = endPart000(bu.context)
                /\ swapInterval' = SwapIntervalOf(defaultOptions.vsync)
                /\ evq' = <<>>
                /\ cursorInsideWindow' = st.inside
                /\ prevInp' = rot.prevInp
                /\ currInp' = rot.currInp
                /\ tempInp' = rot.tempInp
                /\ prevJoy' = joy.prevJoy
                /\ currJoy' = joy.currJoy
                /\ UNCHANGED <<pc, natCursor, natJoy>>
                /\ Hist([op |-> "NewWindowPart000", w |-> TheWindow, err |-> <<>>,
                         share |-> currWin, polled |-> q,
                         bound |-> bu.context = TheWindow,
                         pre |-> [currWin |-> currWin, natContext |-> natContext]])

\* Window.Update of part_000.  bound: the context of the Window is the current
\* one after begin, where Update clears, blits and swaps
UpdatePart000(Q) ==
    \E nb \in {R(0, 0, Float(natSize.W), Float(natSize.H))} :
    \E joy \in {updateJoystickInput(prevJoy, currJoy, natJoy)} :
    \E q \in Q :
    \E st \in {PollEvents([inp |-> tempInp, inside |-> cursorInsideWindow], nb, evq \o q)} :
    \E rot \in {Rotate(prevInp, currInp, st.inp)} :
    \E bg \in {begin(currWin, natContext, TheWindow)} :
        /\ natWindows[TheWindow] = "live"
        /\ bounds' = nb
        /\ currWin' = bg.currWin
        /\ natContext' = endPart000(bg.context)
        /\ swapInterval' = SwapIntervalOf(vsync)
        /\ evq' = <<>>
        /\ cursorInsideWindow' = st.inside
        /\ prevInp' = rot.prevInp
        /\ currInp' = rot.currInp
        /\ tempInp' = rot.tempInp
        /\ prevJoy' = joy.prevJoy
        /\ currJoy' = joy.currJoy
        /\ UNCHANGED <<pc, restore, vsync, natSize, natPos, natMonitor, natCursor, natJoy,
                       natWindows>>
        /\ Hist([op |-> "UpdatePart000", polled |-> evq \o q, made |-> bg.made,
                 bound |-> bg.context = TheWindow,
                 pre |-> [currWin |-> currWin, natContext |-> natContext]])

\* The program creates another window with the NewWindow of part_000.
OtherNewWindowPart000 ==
    \E bg \in {begin(currWin, natContext, OtherWindow)} :
    \E bu \in {begin(bg.currWin, endPart000(bg.context), OtherWindow)} :
        /\ natWindows[OtherWindow] = "none"
        /\ natWindows' = [natWindows EXCEPT ![OtherWindow] = "live"]
        /\ currWin' = bu.currWin
        /\ natContext' = endPart000(bu.context)
        /\ UNCHANGED <<tempInp, currInp, prevInp, cursorInsideWindow, bounds, restore,
                       vsync, currJoy, prevJoy, pc, evq, natSize, natPos, natMonitor,
                       natCursor, natJoy, swapInterval>>
        /\ Hist([op |-> "OtherNewWindowPart000", share |-> currWin,
                 bound |-> bu.context = OtherWindow,
                 pre |-> [currWin |-> currWin, natContext |-> natContext]])

\* The program updates the other window with the Update of part_000; its
\* vsync flag is flag.
OtherUpdatePart000(flag) ==
    \E bg \in {begin(currWin, natContext, OtherWindow)} :
        /\ natWindows[OtherWindow] = "live"
        /\ currWin' = bg.currWin
        /\ natContext' = endPart000(bg.context)
        /\ swapInterval' = SwapIntervalOf(flag)
        /\ UNCHANGED <<tempInp, currInp, prevInp, cursorInsideWindow, bounds, restore,
                       vsync, currJoy, prevJoy, pc, evq, natSize, natPos, natMonitor,
                       natCursor, natJoy, natWindows>>
        /\ Hist([op |-> "OtherUpdatePart000", made |-> bg.made,
                 bound |-> bg.context = OtherWindow,
                 pre |-> [currWin |-> currWin, natContext |-> natContext]])

\* Update of this Window, statement by statement, as the update thread of
\* the Window runs it.  UpdateStart: from the first statement of Update to the
\* return of the mainthread.Call of UpdateInput that polls the events.
UpdateStart(Q) ==
    \E nb \in {UpdateBounds(bounds, natSize)} :
    \E q \in Q :
    \E st \in {PollEvents([inp |-> tempInp, inside |-> cursorInsideWindow], nb, evq \o q)} :
    \E bg \in {begin(currWin, natContext, TheWindow)} :
        /\ pc = "idle"
        /\ pc' = "polled"
        /\ bounds' = nb
        /\ currWin' = bg.currWin
        /\ natContext' = bg.context
        /\ UNCHANGED natWindows
        /\ swapInterval' = SwapIntervalOf(vsync)
        /\ evq' = <<>>
        /\ cursorInsideWindow' = st.inside
        /\ tempInp' = st.inp
        /\ UNCHANGED <<prevInp, currInp, prevJoy, currJoy, restore, vsync, natSize, natPos,
                       natMonitor, natCursor, natJoy>>
        /\ Hist([op |-> "UpdateStart", polled |-> evq \o q, made |-> bg.made,
                 pre |-> [currInp |-> currInp, tempInp |-> tempInp, pc |-> pc]])

\* the next assignment of the rotation of UpdateInput, on the update thread
RotateStep ==
    /\ pc \in {"polled", "prev", "curr", "repeat", "scroll"}
    /\ CASE pc = "polled" -> /\ prevInp' = currInp
                             /\ pc' = "prev"
                             /\ UNCHANGED <<currInp, tempInp>>
         [] pc = "prev"   -> /\ currInp' = tempInp
                             /\ pc' = "curr"
                             /\ UNCHANGED <<prevInp, tempInp>>
         [] pc = "curr"   -> /\ tempInp' = [tempInp EXCEPT !.repeat = {}]
                             /\ pc' = "repeat"
                             /\ UNCHANGED <<prevInp, currInp>>
         [] pc = "repeat" -> /\ tempInp' = [tempInp EXCEPT !.scroll = ZV]
                             /\ pc' = "scroll"
                             /\ UNCHANGED <<prevInp, currInp>>
         [] pc = "scroll" -> /\ tempInp' = [tempInp EXCEPT !.typed = <<>>]
                             /\ pc' = "typed"
                             /\ UNCHANGED <<prevInp, currInp>>
    /\ UNCHANGED <<cursorInsideWindow, bounds, restore, vsync, currJoy, prevJoy, currWin,
                   natVars>>
    /\ Hist([op |-> "RotateStep", step |-> pc,
             pre |-> [prevInp |-> prevInp, currInp |-> currInp, tempInp |-> tempInp]])

\* the last statement of UpdateInput: updateJoystickInput
UpdateFinish ==
    \E joy \in {updateJoystickInput(prevJoy, currJoy, natJoy)} :
        /\ pc = "typed"
        /\ pc' = "idle"
        /\ prevJoy' = joy.prevJoy
        /\ currJoy' = joy.currJoy
        /\ UNCHANGED <<tempInp, currInp, prevInp, cursorInsideWindow, bounds, restore,
                       vsync, currWin, natVars>>
        /\ Hist([op |-> "UpdateFinish", pre |-> [currJoy |-> currJoy]])

\* the user resizes the window
NativeResize(size) ==
    /\ natSize' = size
    /\ UNCHANGED <<winVars, natContext, natWindows, evq, natPos, natMonitor, natCursor, natJoy, swapInterval>>
    /\ Hist([op |-> "NativeResize"])

\* a gamepad is plugged into slot js, unplugged, or changes what it reports
JoyChange(js, dev) ==
    /\ DeviceAt(natJoy, js) # dev
    /\ natJoy' = IF dev = NoDevice THEN [k \in DOMAIN natJoy \ {js} |-> natJoy[k]]
                  ELSE [k \in DOMAIN natJoy \cup {js} |-> IF k = js THEN dev ELSE natJoy[k]]
    /\ UNCHANGED <<winVars, natContext, natWindows, evq, natSize, natPos, natMonitor, natCursor, swapInterval>>
    /\ Hist([op |-> "JoyChange", pre |-> [currJoy |-> currJoy]])

(***************************************************************************)
(* The input buffers: events of every kind, history of one operation.      *)
(***************************************************************************)
InputEvents ==
    {MouseEv(MouseButton1, Press), MouseEv(MouseButton1, Release),
     KeyEv(KeySpace, Repeat), ScrollEv(Sub, -1), CharEv(97), CharEv(233)}
InputSeqs == BSeq(InputEvents, MaxQueue)

Init == InitState(1)
Next == Update(InputSeqs)
Spec == Init /\ [][Next]_vars

\* the sum of the scroll offsets of the events of q
RECURSIVE ScrollSum(_)
ScrollSum(q) ==
    IF q = <<>> THEN ZV
    ELSE LET rest == ScrollSum(Tail(q))
         IN  IF Head(q).type = "scroll"
             THEN V(Head(q).x + rest.X, Head(q).y + rest.Y) ELSE rest

\* the characters of the events of q, in order, each as the string of its rune
RECURSIVE TypedText(_)
TypedText(q) ==
    IF q = <<>> THEN <<>>
    ELSE (IF Head(q).type = "char" THEN RuneString(Head(q).r) ELSE <<>>)
         \o TypedText(Tail(q))

\* C2: an Update rotates once, after its poll: the previous slot is the old
\* current slot, the current slot is the pending slot as the poll left it, and
\* the pending slot keeps its buttons and mouse position and has no repeat
\* flag, scroll (0,0) and no typed text.
RotationOncePerUpdate ==
    lastOp.op = "Update" =>
        /\ prevInp = lastOp.pre.currInp
        /\ currInp = lastOp.afterPoll
        /\ tempInp.repeat = {}
        /\ tempInp.scroll = ZV
        /\ tempInp.typed = <<>>
        /\ tempInp.buttons = lastOp.afterPoll.buttons
        /\ tempInp.mouse = lastOp.afterPoll.mouse

\* an Update whose poll left a button, a repeat flag and a scroll in the pending
\* slot, after a frame with typed text
RotationWitness ==
    /\ lastOp.op = "Update"
    /\ lastOp.afterPoll.buttons # {}
    /\ lastOp.afterPoll.repeat # {}
    /\ lastOp.afterPoll.scroll # ZV
    /\ lastOp.pre.currInp.typed # <<>>
    /\ lastOp.pre.currInp # lastOp.afterPoll

\* C10: after an Update, MouseScroll is the sum of the scroll offsets and Typed
\* the concatenation, in order, of the characters that the callbacks received
\* since the previous rotation: (0,0) and the empty string when there were none.
ScrollAndTypedPerFrame ==
    lastOp.op = "Update" =>
        /\ MouseScroll = ScrollSum(lastOp.polled)
        /\ Typed = TypedText(lastOp.polled)

\* a frame with two scrolls, or with two different characters, after a frame
\* that had scroll or text
ScrollAndTypedWitness ==
    /\ lastOp.op = "Update"
    /\ lastOp.pre.currInp.scroll # ZV \/ lastOp.pre.currInp.typed # <<>>
    /\ \/ lastOp.polled = <<ScrollEv(Sub, -1), ScrollEv(Sub, -1)>>
       \/ lastOp.polled = <<CharEv(233), CharEv(97)>>

\* a frame without scroll or text after a frame that had both
ScrollAndTypedEmptyWitness ==
    /\ lastOp.op = "Update"
    /\ lastOp.pre.currInp.scroll # ZV /\ lastOp.pre.currInp.typed # <<>>
    /\ lastOp.polled = <<>>
    /\ MouseScroll = ZV /\ Typed = <<>>

\* the keys for which the events of q carry a repeat
RepeatedIn(q) ==
    {q[i].code : i \in {j \in 1..Len(q) : q[j].type = "key" /\ q[j].action = Repeat}}

\* C11: after an Update, Repeated(k) is true exactly for the keys k for which a
\* repeat event was delivered since the previous rotation; a repeat flag of the
\* frame before is not carried over.
RepeatPerFrame ==
    lastOp.op = "Update" =>
        \A k \in 0..KeyLast : Repeated(k) <=> k \in RepeatedIn(lastOp.polled)

\* a frame without repeat event after a frame in which the key repeated
RepeatPerFrameWitness ==
    /\ lastOp.op = "Update"
    /\ KeySpace \in lastOp.pre.currInp.repeat
    /\ RepeatedIn(lastOp.polled) = {}
    /\ lastOp.polled # <<>>
    /\ ~Repeated(KeySpace)

(***************************************************************************)
(* Buttons: press and release events of a mouse button and a key, history  *)
(* of two operations.                                                      *)
(***************************************************************************)
\* events a poll delivers where the history looks two operations back
MaxPoll == 2

ButtonEvents ==
    {MouseEv(MouseButton1, Press), MouseEv(MouseButton1, Release),
     KeyEv(KeySpace, Press), KeyEv(KeySpace, Release)}
ButtonSeqs == BSeq(ButtonEvents, MaxPoll)

InitButtons == InitState(2)
NextButtons == Update(ButtonSeqs)
SpecButtons == InitButtons /\ [][NextButtons]_vars

\* the valid button codes: the indices of inputState.buttons
ButtonCodes == 0..KeyLast

\* the press and release actions that the events of q carry for button b, in order
Transitions(q, b) ==
    SelectSeq(q, LAMBDA e : e.type \in {"mouse", "key"} /\ e.code = b
                            /\ e.action \in {Press, Release})

\* C1: a button not pressed after one Update, for which the poll of the next
\* Update delivers a press and the poll of the one after it a release, is
\* JustPressed and Pressed after the second Update, and JustReleased and not
\* Pressed after the third.
PressThenRelease ==
    \A b \in ButtonCodes :
        /\ ( /\ lastOp.op = "Update"
             /\ b \notin lastOp.pre.currInp.buttons
             /\ Len(Transitions(lastOp.polled, b)) = 1
             /\ Transitions(lastOp.polled, b)[1].action = Press )
           => (JustPressed(b) /\ Pressed(b))
        /\ ( /\ lastOp.op = "Update" /\ prevOp.op = "Update"
             /\ b \notin prevOp.pre.currInp.buttons
             /\ Len(Transitions(prevOp.polled, b)) = 1
             /\ Transitions(prevOp.polled, b)[1].action = Press
             /\ Len(Transitions(lastOp.polled, b)) = 1
             /\ Transitions(lastOp.polled, b)[1].action = Release )
           => (JustReleased(b) /\ ~Pressed(b))

\* the third Update of such a sequence, for the key and for the mouse button
PressThenReleaseWitness ==
    /\ lastOp.op = "Update" /\ prevOp.op = "Update"
    /\ \E b \in {KeySpace} :
        /\ b \notin prevOp.pre.currInp.buttons
        /\ Transitions(prevOp.polled, b) = <<KeyEv(b, Press)>>
        /\ Transitions(lastOp.polled, b) = <<KeyEv(b, Release)>>
        /\ JustReleased(b)

\* the events of q carry no release of button b
NoRelease(q, b) ==
    \A i \in 1..Len(Transitions(q, b)) : Transitions(q, b)[i].action # Release

\* the last press or release that the events of q carry for button b is a press
EndsPressed(q, b) ==
    /\ Transitions(q, b) # <<>>
    /\ Transitions(q, b)[Len(Transitions(q, b))].action = Press

\* C12: a button whose last event was a press is Pressed after the Update that
\* polled the press and after every later Update whose poll delivers no release
\* of it, and is not JustPressed after those later Updates.
HeldStaysPressed ==
    \A b \in ButtonCodes :
        /\ (lastOp.op = "Update" /\ EndsPressed(lastOp.polled, b)) => Pressed(b)
        /\ ( /\ lastOp.op = "Update"
             /\ b \in lastOp.pre.currInp.buttons
             /\ NoRelease(lastOp.polled, b) )
           => (Pressed(b) /\ ~JustPressed(b))
        /\ ( /\ lastOp.op = "Update" /\ prevOp.op = "Update"
             /\ EndsPressed(prevOp.polled, b)
             /\ NoRelease(lastOp.polled, b) )
           => (Pressed(b) /\ ~JustPressed(b))

\* the mouse button, down for two frames already, still down after two more
\* Updates, the first with events of the key only and the second with none
HeldStaysPressedWitness ==
    /\ lastOp.op = "Update" /\ prevOp.op = "Update"
    /\ MouseButton1 \in prevOp.pre.currInp.buttons
    /\ prevOp.polled = <<KeyEv(KeySpace, Press), KeyEv(KeySpace, Release)>>
    /\ lastOp.polled = <<>>
    /\ Pressed(MouseButton1) /\ ~JustPressed(MouseButton1)

\* the events of q carry for button b a press and then a release, and no more
PressReleasePair(q, b) ==
    /\ Len(Transitions(q, b)) = 2
    /\ Transitions(q, b)[1].action = Press
    /\ Transitions(q, b)[2].action = Release

\* none of Pressed, JustPressed and JustReleased holds for button b
Unobserved(b) == ~Pressed(b) /\ ~JustPressed(b) /\ ~JustReleased(b)

\* C31: a button not pressed before, for which the poll of one Update delivers
\* a press and then a release, is neither Pressed nor JustPressed nor
\* JustReleased after that Update, nor after the next Update if its poll has
\* no event of the button.
PairWithinPollUnobserved ==
    \A b \in ButtonCodes :
        /\ ( /\ lastOp.op = "Update"
             /\ b \notin lastOp.pre.currInp.buttons
             /\ b \notin lastOp.pre.tempInp.buttons
             /\ PressReleasePair(lastOp.polled, b) )
           => Unobserved(b)
        /\ ( /\ lastOp.op = "Update" /\ prevOp.op = "Update"
             /\ b \notin prevOp.pre.currInp.buttons
             /\ b \notin prevOp.pre.tempInp.buttons
             /\ PressReleasePair(prevOp.polled, b)
             /\ Transitions(lastOp.polled, b) = <<>> )
           => Unobserved(b)

\* the key pressed and released within one poll while the mouse button is down,
\* and the Update after it, whose poll releases the mouse button
PairWithinPollUnobservedWitness ==
    /\ lastOp.op = "Update" /\ prevOp.op = "Update"
    /\ KeySpace \notin prevOp.pre.currInp.buttons
    /\ MouseButton1 \in prevOp.pre.currInp.buttons
    /\ prevOp.polled = <<KeyEv(KeySpace, Press), KeyEv(KeySpace, Release)>>
    /\ lastOp.polled = <<MouseEv(MouseButton1, Release)>>
    /\ JustReleased(MouseButton1)
    /\ Unobserved(KeySpace)

(***************************************************************************)
(* The mouse position: SetMousePosition, SetBounds and cursor-position     *)
(* events, history of two operations.                                      *)
(***************************************************************************)
\* the bounds NewWindow leaves, and the same rectangle moved off the origin
MouseRects ==
    {R(0, 0, Float(InitWidth), Float(InitHeight)),
     R(Float(1), Float(2), Float(1 + InitWidth), Float(2 + InitHeight))}

\* a point inside both rectangles, one inside each without being inside the
\* other, and one outside both
MousePoints ==
    {V(Float(2), Float(2)), V(Float(1), Float(1)),
     V(Float(InitWidth + 1), Float(InitHeight + 1)), V(-1, Float(1))}

CursorSeqs == BSeq({CursorEv(Float(1), 1)}, MaxPoll)

InitMouse == InitState(2)
NextMouse ==
    \/ \E v \in MousePoints, echo \in BOOLEAN : SetMousePosition(v, echo)
    \/ \E r \in MouseRects : SetBounds(r)
    \/ Update(CursorSeqs)
SpecMouse == InitMouse /\ [][NextMouse]_vars

\* v lies within the rectangle b
Contains(b, v) ==
    b.Min.X <= v.X /\ v.X <= b.Max.X /\ b.Min.Y <= v.Y /\ v.Y <= b.Max.Y

\* SetMousePosition took effect: it warped the native cursor
TookEffect(o) == o.op = "SetMousePosition" /\ o.calls = <<"SetCursorPos">>

\* C6: the position SetMousePosition(v) warps the native cursor to is the one
\* that the cursor-position callback maps back to v, whatever the bounds.
WarpInvertsCallback ==
    TookEffect(lastOp) =>
        CursorPosCallback(tempInp, bounds, natCursor.X, natCursor.Y).mouse = lastOp.v

\* C7: SetMousePosition(v) takes effect exactly when v lies within Bounds().
EffectIffWithinBounds ==
    lastOp.op = "SetMousePosition" => (TookEffect(lastOp) <=> Contains(Bounds, lastOp.v))

\* C8: after SetMousePosition(v) with v in [0,W]x[0,H] the pending, current and
\* previous mouse positions are v, and MousePosition is still v after the next
\* Update when its poll delivers no cursor-position event.
MousePositionForced ==
    /\ ( /\ lastOp.op = "SetMousePosition"
         /\ 0 <= lastOp.v.X /\ lastOp.v.X <= RectW(bounds)
         /\ 0 <= lastOp.v.Y /\ lastOp.v.Y <= RectH(bounds) )
       => ( /\ tempInp.mouse = lastOp.v
            /\ MousePosition = lastOp.v
            /\ MousePreviousPosition = lastOp.v )
    /\ ( /\ lastOp.op = "Update" /\ prevOp.op = "SetMousePosition"
         /\ 0 <= prevOp.v.X /\ prevOp.v.X <= RectW(prevOp.pre.bounds)
         /\ 0 <= prevOp.v.Y /\ prevOp.v.Y <= RectH(prevOp.pre.bounds)
         /\ \A i \in 1..Len(lastOp.polled) : lastOp.polled[i].type # "cursor" )
       => MousePosition = prevOp.v

\* an Update without cursor event right after an accepted SetMousePosition that
\* changed all three positions, the pending one last set by a callback
MousePositionForcedWitness ==
    /\ lastOp.op = "Update" /\ TookEffect(prevOp)
    /\ lastOp.polled = <<>>
    /\ prevOp.pre.tempInp.mouse # prevOp.v
    /\ prevOp.pre.currInp.mouse # prevOp.v
    /\ prevOp.pre.prevInp.mouse # prevOp.v
    /\ prevOp.pre.prevInp.mouse # prevOp.pre.currInp.mouse
    /\ MousePosition = prevOp.v

CallbackEvents ==
    {MouseEv(MouseButton1, Press), MouseEv(MouseButton1, Release),
     KeyEv(KeySpace, Repeat), CursorEv(Float(1), 1), ScrollEv(Sub, -1), CharEv(97)}

InitCallbacks == InitState(1)
NextCallbacks ==
    \/ \E e \in CallbackEvents : Callback(e)
    \/ Update({<<>>})
SpecCallbacks == InitCallbacks /\ [][NextCallbacks]_vars

\* C13: a callback changes none of the answers of Pressed, JustPressed,
\* JustReleased, Repeated, MousePosition, MousePreviousPosition, MouseScroll
\* and Typed: they stay as they were until the next rotation.
CallbacksOnlyPending ==
    lastOp.op = "Callback" => Answers = lastOp.pre.answers

\* a second callback in a row that changed the pending slot, which by now
\* differs from the current slot in buttons, scroll and text
CallbacksOnlyPendingWitness ==
    /\ lastOp.op = "Callback" /\ lastOp.n = 2
    /\ tempInp # lastOp.pre.tempInp
    /\ currInp.buttons # {}
    /\ tempInp.buttons # currInp.buttons
    /\ tempInp.scroll # currInp.scroll \/ tempInp.typed # currInp.typed

(***************************************************************************)
(* Cursor-position callbacks between two Updates while the program moves   *)
(* the bounds, history of one operation.                                   *)
(***************************************************************************)
CursorEvents == {CursorEv(0, 0), CursorEv(Float(1), 1)}

InitCursor == InitState(1)
NextCursor ==
    \/ \E e \in CursorEvents : Callback(e)
    \/ \E r \in MouseRects : SetBounds(r)
    \/ Update({<<>>})
SpecCursor == InitCursor /\ [][NextCursor]_vars

\* C14: a cursor-position callback with raw position (x, y) leaves the pending
\* mouse position x to the right of the left edge of the bounds and y below
\* their top edge, the bounds being those at the time of the callback; the raw
\* corner (0, 0) is stored as (Min.X, Max.Y).
CursorTransform ==
    (lastOp.op = "Callback" /\ lastOp.e.type = "cursor") =>
        /\ tempInp.mouse.X - bounds.Min.X = lastOp.e.x
        /\ bounds.Max.Y - tempInp.mouse.Y = lastOp.e.y
        /\ (lastOp.e.x = 0 /\ lastOp.e.y = 0) => tempInp.mouse = V(bounds.Min.X, bounds.Max.Y)

\* a cursor-position callback at a fractional raw position, the bounds off the
\* origin, after the pending position was elsewhere
CursorTransformWitness ==
    /\ lastOp.op = "Callback" /\ lastOp.e = CursorEv(Float(1), 1)
    /\ bounds.Min # ZV
    /\ lastOp.pre.tempInp.mouse = V(bounds.Min.X, bounds.Max.Y)
    /\ tempInp.mouse = V(Float(1) + bounds.Min.X, bounds.Max.Y - 1)

(***************************************************************************)
(* The bounds: SetBounds with whole and fractional rectangles, resizes by  *)
(* the user and Updates, history of one operation.                         *)
(***************************************************************************)
\* the bounds NewWindow leaves, a rectangle of whole pixels off the origin, and
\* one whose corners and size are fractional
BoundsRects ==
    {R(0, 0, Float(InitWidth), Float(InitHeight)),
     R(Float(1), Float(2), Float(InitWidth), Float(InitHeight + 3)),
     R(1, Float(1), Float(InitWidth) + 2, Float(InitHeight) + 1 - Sub)}

NativeSizes ==
    {[W |-> InitWidth, H |-> InitHeight], [W |-> InitWidth + 1, H |-> InitHeight - 1],
     [W |-> InitWidth - 2, H |-> InitHeight + 3]}

InitBounds == InitState(1)
NextBounds ==
    \/ \E r \in BoundsRects : SetBounds(r)
    \/ \E size \in NativeSizes : NativeResize(size)
    \/ Update({<<>>})
SpecBounds == InitBounds /\ [][NextBounds]_vars

\* the corners of rectangle r are whole pixels
WholePixels(r) ==
    r.Min.X % Sub = 0 /\ r.Min.Y % Sub = 0 /\ r.Max.X % Sub = 0 /\ r.Max.Y % Sub = 0

\* C15: right after SetBounds(r), Bounds() is r, whole or fractional, at the
\* origin or not.
SetBoundsRoundTrip ==
    lastOp.op = "SetBounds" => Bounds = lastOp.r

\* SetBounds with a fractional rectangle off the origin, on a window whose
\* native size the user had changed
SetBoundsRoundTripWitness ==
    /\ lastOp.op = "SetBounds"
    /\ ~WholePixels(lastOp.r)
    /\ lastOp.r.Min # ZV
    /\ RectW(lastOp.r) % Sub # 0
    /\ lastOp.pre.bounds # lastOp.r
    /\ lastOp.pre.natSize # IntSize(lastOp.pre.bounds)
    /\ Bounds = lastOp.r

\* C16: an Update leaves the minimum corner of the bounds and changes their
\* width and height by the native size minus the integer size of the bounds
\* before it; so bounds of whole pixels get the native size as their width and
\* height, and stay as they are when the native size is still their own.
UpdateReconcilesBounds ==
    lastOp.op = "Update" =>
        /\ bounds.Min = lastOp.pre.bounds.Min
        /\ RectW(bounds) - RectW(lastOp.pre.bounds)
               = Float(natSize.W - IntSize(lastOp.pre.bounds).W)
        /\ RectH(bounds) - RectH(lastOp.pre.bounds)
               = Float(natSize.H - IntSize(lastOp.pre.bounds).H)
        /\ WholePixels(lastOp.pre.bounds) =>
               /\ RectW(bounds) = Float(natSize.W) /\ RectH(bounds) = Float(natSize.H)
               /\ (natSize = [W |-> RectW(lastOp.pre.bounds) \div Sub,
                              H |-> RectH(lastOp.pre.bounds) \div Sub])
                      => Bounds = lastOp.pre.bounds

\* an Update after a resize by the user, of bounds of whole pixels off the
\* origin, that changed width and height
UpdateReconcilesBoundsWitness ==
    /\ lastOp.op = "Update"
    /\ WholePixels(lastOp.pre.bounds)
    /\ lastOp.pre.bounds.Min = V(Float(1), Float(2))
    /\ RectW(bounds) # RectW(lastOp.pre.bounds)
    /\ RectH(bounds) # RectH(lastOp.pre.bounds)
    /\ bounds.Min = lastOp.pre.bounds.Min

\* an Update of fractional bounds after a resize by the user
UpdateFractionalWitness ==
    /\ lastOp.op = "Update"
    /\ ~WholePixels(lastOp.pre.bounds)
    /\ bounds # lastOp.pre.bounds

(***************************************************************************)
(* Creation: NewWindow succeeds or fails, in a program that has no window  *)
(* yet or has another one; Updates follow a success.  History of one       *)
(* operation.                                                              *)
(***************************************************************************)
CreateSizes == {[W |-> InitWidth, H |-> InitHeight], [W |-> 800, H |-> 600]}
CreateCauses == {"", "no graphics device", "out of memory"}
CreatePolls == {<<>>, <<MouseEv(MouseButton1, Press), ScrollEv(Sub, -1)>>, <<CharEv(97)>>}
CreateSeqs ==
    BSeq({MouseEv(MouseButton1, Press), MouseEv(MouseButton1, Release), CharEv(97)},
         MaxQueue)

\* the state of a program before NewWindow: the Window does not exist; cw is
\* no window or another one, whose begin ran last, and ctx the context bound
InitNoWindow(cw, ctx, depth) ==
    /\ tempInp = ZeroInput
    /\ currInp = ZeroInput
    /\ prevInp = ZeroInput
    /\ cursorInsideWindow = FALSE
    /\ bounds = R(0, 0, 0, 0)
    /\ restore = [xpos |-> 0, ypos |-> 0, width |-> 0, height |-> 0]
    /\ vsync = FALSE
    /\ currJoy = ZeroJoys
    /\ prevJoy = ZeroJoys
    /\ currWin = cw
    /\ pc = "idle"
    /\ natContext = ctx
    /\ natWindows = [w \in Windows |-> IF w = cw THEN "live" ELSE "none"]
    /\ evq = <<>>
    /\ natSize = [W |-> 0, H |-> 0]
    /\ natPos = [x |-> 0, y |-> 0]
    /\ natMonitor = NoMonitor
    /\ natCursor = ZV
    /\ natJoy = [js \in {} |-> NoDevice]
    /\ swapInterval = 0
    /\ lastOp = NoOp
    /\ prevOp = NoOp
    /\ histDepth = depth

InitCreate == \E cw \in {NoWindow, OtherWindow} : InitNoWindow(cw, cw, 1)

NextCreate ==
    \/ \E size \in CreateSizes, cause \in CreateCauses, q \in CreatePolls :
           NewWindow(size, <<>>, cause, q)
    \/ Created /\ Update(CreateSeqs)
SpecCreate == InitCreate /\ [][NextCreate]_vars

\* C17: right after a NewWindow(800, 600) that succeeded, windowed, its Update
\* having polled no event, Bounds() is (0,0)-(800,600), Typed() is empty,
\* MouseScroll() is (0,0) and no button is Pressed.
NewWindowInitialState ==
    ( /\ lastOp.op = "NewWindow" /\ lastOp.w # NoWindow
      /\ lastOp.size = [W |-> 800, H |-> 600]
      /\ lastOp.polled = <<>> )
    => ( /\ natMonitor = NoMonitor
         /\ Bounds = R(0, 0, Float(800), Float(600))
         /\ Typed = <<>>
         /\ MouseScroll = ZV
         /\ \A b \in ButtonCodes : ~Pressed(b) )

\* such a NewWindow(800, 600), in a program that had another window
NewWindowInitialStateWitness ==
    /\ lastOp.op = "NewWindow" /\ lastOp.w = TheWindow
    /\ lastOp.size = [W |-> 800, H |-> 600]
    /\ lastOp.polled = <<>>
    /\ lastOp.pre.currWin = OtherWindow
    /\ RectW(Bounds) = Float(800) /\ RectH(Bounds) = Float(600)

\* C20: a NewWindow whose native creation failed returns no window and an
\* error made of the message "creating window failed" and the native cause,
\* runs no step after the creation and leaves the window bound last as it was.
CreationFailure ==
    (lastOp.op = "NewWindow" /\ lastOp.cause # "") =>
        /\ lastOp.w = NoWindow
        /\ lastOp.err # <<>>
        /\ lastOp.err[1] = "creating window failed"
        /\ lastOp.err[Len(lastOp.err)] = lastOp.cause
        /\ lastOp.steps = <<"WindowHint", "CreateWindow">>
        /\ currWin = lastOp.pre.currWin
        /\ bounds = R(0, 0, 0, 0) /\ natSize = [W |-> 0, H |-> 0]

\* a failed NewWindow in a program that had another window
CreationFailureWitness ==
    /\ lastOp.op = "NewWindow" /\ lastOp.cause = "no graphics device"
    /\ lastOp.w = NoWindow
    /\ currWin = OtherWindow

(***************************************************************************)
(* Joysticks: gamepads come and go in the first and in the last slot,      *)
(* history of one operation.                                               *)
(***************************************************************************)
\* what a connected gamepad reports: one to MaxJoyButtons buttons, one axis
Pads ==
    {[gamepad |-> TRUE, name |-> "pad", buttons |-> bs, axes |-> <<Sub>>] :
        bs \in UNION {[1..k -> {Release, Press}] : k \in 1..MaxJoyButtons}}
OneButtonPads == {d \in Pads : Len(d.buttons) = 1}

InitJoy == InitState(1)
NextJoy ==
    \/ \E dev \in Pads \cup {NoDevice} : JoyChange(Joystick1, dev)
    \/ \E dev \in OneButtonPads \cup {NoDevice} : JoyChange(JoystickLast, dev)
    \/ Update({<<>>})
SpecJoy == InitJoy /\ [][NextJoy]_vars

\* C3: after an Update, in every slot, a button is JoystickJustPressed exactly
\* when it is pressed in the snapshot of this Update and was not in the
\* snapshot of the previous Update, and JoystickJustReleased exactly when it
\* was pressed in the previous snapshot and is not in this one.
JoystickEdges ==
    lastOp.op = "Update" =>
        \A js \in JoySlots, b \in 0..(MaxJoyButtons - 1) :
            /\ JoystickJustPressed(js, b) <=>
                   ( getButton(JoyAt(currJoy, js), b)
                     /\ ~getButton(JoyAt(lastOp.pre.currJoy, js), b) )
            /\ JoystickJustReleased(js, b) <=>
                   ( ~getButton(JoyAt(currJoy, js), b)
                     /\ getButton(JoyAt(lastOp.pre.currJoy, js), b) )

\* the indices the queries are asked with: one below the arrays, the valid
\* ones and one beyond
JoyIndices == (-1)..MaxJoyButtons

\* C24: after an Update at which the native layer reports no gamepad in slot
\* js the slot is not present, and a slot that is not present has the empty
\* name, no button and no axis, no button pressed and every axis at 0; the
\* slot changes at an Update only, so this lasts until an Update finds a
\* gamepad in it again.
DisconnectResetsSlot ==
    \A js \in JoySlots :
        /\ (lastOp.op = "Update" /\ ~DeviceAt(natJoy, js).gamepad) => ~JoystickPresent(js)
        /\ lastOp.op = "JoyChange" => JoyAt(currJoy, js) = JoyAt(lastOp.pre.currJoy, js)
        /\ ~JoystickPresent(js) =>
               /\ JoystickName(js) = ""
               /\ JoystickButtonCount(js) = 0
               /\ JoystickAxisCount(js) = 0
               /\ \A i \in JoyIndices : ~JoystickPressed(js, i) /\ JoystickAxis(js, i) = 0

\* the Update after the gamepad of the first slot, a button of it down, was
\* unplugged
DisconnectResetsSlotWitness ==
    /\ lastOp.op = "Update"
    /\ JoyAt(lastOp.pre.currJoy, Joystick1).connected
    /\ getButton(JoyAt(lastOp.pre.currJoy, Joystick1), 0)
    /\ JoyAt(lastOp.pre.currJoy, Joystick1).name = "pad"
    /\ ~DeviceAt(natJoy, Joystick1).gamepad
    /\ ~JoystickPresent(Joystick1)

\* C25: in every slot, with an index that is negative or not below the length
\* of the current array, or on a slot that is not present, JoystickPressed,
\* JoystickJustPressed and JoystickJustReleased are false and JoystickAxis is 0.
JoystickIndexSafe ==
    \A js \in JoySlots, i \in JoyIndices :
        /\ (i < 0 \/ i >= JoystickButtonCount(js) \/ ~JoystickPresent(js)) =>
               /\ ~JoystickPressed(js, i)
               /\ ~JoystickJustPressed(js, i)
               /\ ~JoystickJustReleased(js, i)
        /\ (i < 0 \/ i >= JoystickAxisCount(js) \/ ~JoystickPresent(js)) =>
               JoystickAxis(js, i) = 0

(***************************************************************************)
(* Fullscreen and windowed: SetMonitor, SetPos and SetBounds, history of   *)
(* two operations.                                                         *)
(***************************************************************************)
\* a position with a fraction, and one left of the screen's origin
WindowPositions == {V(Float(3) + Sub - 1, Float(1)), V(-(Float(1)) - 1, Float(2))}
WindowRects == {R(0, 0, Float(InitWidth + 1), Float(InitHeight))}

InitMonitor == InitState(2)
NextMonitor ==
    \/ \E m \in CallerMonitors \cup {NilMonitor} : SetMonitor(m)
    \/ \E pos \in WindowPositions : SetPos(pos)
    \/ \E r \in WindowRects : SetBounds(r)
    \/ Update({<<>>})
SpecMonitor == InitMonitor /\ [][NextMonitor]_vars

\* the native calls of an operation
Called(o, call) == \E i \in 1..Len(o.calls) : o.calls[i] = call

\* C4: SetMonitor(m) on a window that is fullscreen on the monitor whose native
\* handle m wraps switches no monitor and leaves the restore record alone.
SameMonitorIsNoOp ==
    ( /\ lastOp.op = "SetMonitor"
      /\ lastOp.monitor # NilMonitor
      /\ lastOp.pre.natMonitor = lastOp.monitor.monitor )
    => ( /\ ~Called(lastOp, "SetMonitor")
         /\ restore = lastOp.pre.restore )

\* C5: SetMonitor(m), m not nil, on a windowed window at position p with size
\* s, followed by SetMonitor(nil), leaves the window windowed at p with size s.
FullscreenRoundTrip ==
    ( /\ lastOp.op = "SetMonitor" /\ lastOp.monitor = NilMonitor
      /\ prevOp.op = "SetMonitor" /\ prevOp.monitor # NilMonitor
      /\ prevOp.pre.natMonitor = NoMonitor )
    => ( /\ natMonitor = NoMonitor
         /\ natPos = prevOp.pre.natPos
         /\ natSize = prevOp.pre.natSize )

\* such a round trip of a window that was moved and resized, through a monitor
\* of another size and place, after an earlier fullscreen stay
FullscreenRoundTripWitness ==
    /\ lastOp.op = "SetMonitor" /\ lastOp.monitor = NilMonitor
    /\ prevOp.op = "SetMonitor" /\ prevOp.monitor # NilMonitor
    /\ prevOp.pre.natMonitor = NoMonitor
    /\ lastOp.pre.natMonitor = prevOp.monitor.monitor
    /\ lastOp.pre.natPos # prevOp.pre.natPos
    /\ lastOp.pre.natSize # prevOp.pre.natSize
    /\ prevOp.pre.natPos = [x |-> 3, y |-> 1]
    /\ prevOp.pre.natSize = [W |-> InitWidth + 1, H |-> InitHeight]
    /\ prevOp.pre.restore # [xpos |-> 3, ypos |-> 1, width |-> InitWidth + 1, height |-> InitHeight]
    /\ natPos = prevOp.pre.natPos

\* C18: SetMonitor(nil) on a windowed window asks the native layer for the
\* monitor and issues no other call; native position, native size and the
\* restore record stay as they were, however often it is called.
WindowedNilIsNoOp ==
    /\ ( /\ lastOp.op = "SetMonitor" /\ lastOp.monitor = NilMonitor
         /\ lastOp.pre.natMonitor = NoMonitor )
       => ( /\ lastOp.calls = <<"GetMonitor">>
            /\ natMonitor = NoMonitor
            /\ natPos = lastOp.pre.natPos
            /\ natSize = lastOp.pre.natSize
            /\ restore = lastOp.pre.restore )
    /\ ( /\ lastOp.op = "SetMonitor" /\ lastOp.monitor = NilMonitor
         /\ prevOp.op = "SetMonitor" /\ prevOp.monitor = NilMonitor
         /\ prevOp.pre.natMonitor = NoMonitor )
       => ( /\ natMonitor = NoMonitor
            /\ natPos = prevOp.pre.natPos
            /\ natSize = prevOp.pre.natSize
            /\ restore = prevOp.pre.restore )

\* SetMonitor(nil) twice on a windowed window that was fullscreen once and has
\* been moved since, so that the restore record is not where the window is
WindowedNilIsNoOpWitness ==
    /\ lastOp.op = "SetMonitor" /\ lastOp.monitor = NilMonitor
    /\ prevOp.op = "SetMonitor" /\ prevOp.monitor = NilMonitor
    /\ prevOp.pre.natMonitor = NoMonitor
    /\ restore.width # 0
    /\ natPos # [x |-> restore.xpos, y |-> restore.ypos]
    /\ natMonitor = NoMonitor

\* |x|
Abs(x) == IF x >= 0 THEN x ELSE -x

\* n is the float64 x without its fraction
IsTruncationOf(n, x) == Abs(Float(n)) <= Abs(x) /\ Abs(x - Float(n)) < Sub

QueryNames == {"Pressed", "JustPressed", "JustReleased", "Repeated"}
\* the ends of the two ranges of exported codes, and a key in between
ExportedCodes == {KeyUnknown, KeySpace, KeyLast, MouseButton1, MouseButtonLast}

InitQuery == InitState(1)
NextQuery ==
    /\ ~Crashed
    /\ \/ \E name \in QueryNames, b \in ExportedCodes : Query(name, b)
       \/ Update(ButtonSeqs)
SpecQuery == InitQuery /\ [][NextQuery]_vars

\* C21: Pressed, JustPressed, JustReleased and Repeated return a boolean for
\* every exported button code, KeyUnknown included.
QueriesTotal ==
    lastOp.op \in QueryNames => ~lastOp.result.panic

(***************************************************************************)
(* Options: NewWindow with sequences of option functions; history of one   *)
(* operation.                                                              *)
(***************************************************************************)
\* option functions a call of NewWindow is given at most
MaxOptions == 2

OptionNames ==
    {"Resizable", "Undecorated", "NoIconify", "AlwaysOnTop", "VSyncEnabled",
     "TransparentWindowEnabled"}
OptionSeqs == BSeq(OptionNames, MaxOptions)

NextOptions ==
    \/ \E opts \in OptionSeqs, cause \in {"", "no graphics device"} :
           NewWindow([W |-> InitWidth, H |-> InitHeight], opts, cause, <<>>)
    \/ Created /\ Update({<<>>})
SpecOptions == InitCreate /\ [][NextOptions]_vars

\* the option function named name is among opts
Applied(opts, name) == \E i \in 1..Len(opts) : opts[i] = name

\* C22: the Floating hint NewWindow gives the native layer is on exactly when
\* the AlwaysOnTop option was applied, whether the window is decorated or not.
FloatingIffAlwaysOnTop ==
    lastOp.op = "NewWindow" =>
        (lastOp.hints.Floating = GlfwTrue <=> Applied(lastOp.opts, "AlwaysOnTop"))

\* C23: with the NoIconify option applied, the AutoIconify hint NewWindow gives
\* the native layer is off.
NoIconifyDisablesAutoIconify ==
    (lastOp.op = "NewWindow" /\ Applied(lastOp.opts, "NoIconify")) =>
        lastOp.hints.AutoIconify = GlfwFalse

(***************************************************************************)
(* The threads of the native calls.  The body of a method is the sequence  *)
(* of its statements: a closure handed to mainthread.Call with the native  *)
(* calls it makes in order, a native call made directly, or a plain Go     *)
(* statement with the field it writes.                                     *)
(***************************************************************************)
MainThread == "main"
Callers == {"update", "finalizer"}

CallItem(natives) == [kind |-> "call", natives |-> natives]
GoItem(field) == [kind |-> "go", natives |-> <<>>, field |-> field]

\* the native calls of begin(); switch: currWin is not the window
beginNatives(switch) == IF switch THEN <<"MakeContextCurrent">> ELSE <<>>

\* a joystick poll that asks the native layer directly
JoystickItemsDirect(js, gamepad) ==
    <<GoItem("prevJoy"), [kind |-> "direct", natives |-> <<"IsGamepad">>]>>

\* one round of the loop of updateJoystickInput; gamepad: a gamepad has just
\* been plugged in slot js
JoystickItems(js, gamepad) ==
    <<GoItem("prevJoy"),
      CallItem(IF gamepad THEN <<"IsGamepad", "GetName", "GetButtons", "GetAxes">>
                          ELSE <<"IsGamepad">>)>>

RECURSIVE JoystickLoopItems(_, _)
JoystickLoopItems(js, gamepad) ==
    IF js > JoystickLast THEN <<>>
    ELSE JoystickItems(js, gamepad) \o JoystickLoopItems(js + 1, gamepad)

updateJoystickInputBody(gamepad) == JoystickLoopItems(Joystick1, gamepad)

UpdateInputBody(gamepad) ==
    <<CallItem(<<"PollEvents">>),
      GoItem("prevInp"), GoItem("currInp"),
      GoItem("tempInp.repeat"), GoItem("tempInp.scroll"), GoItem("tempInp.typed")>>
    \o updateJoystickInputBody(gamepad)

\* switch: another window was current, and a gamepad has just been plugged
UpdateBody(switch) ==
    <<CallItem(<<"GetSize">>),
      CallItem(beginNatives(switch)
               \o <<"GetFramebufferSize", "SwapInterval", "SwapBuffers">>)>>
    \o UpdateInputBody(switch)

MonitorBody == <<CallItem(<<"GetMonitor">>)>>
setFullscreenBody == <<CallItem(<<"GetPos", "GetSize", "GetVideoMode", "SetMonitor">>)>>
setWindowedBody == <<CallItem(<<"SetMonitor">>)>>

\* fullscreen: the monitor asked for is not nil (and is not the current one)
SetMonitorBody(fullscreen) ==
    MonitorBody \o (IF fullscreen THEN setFullscreenBody ELSE setWindowedBody)

initInputBody ==
    <<CallItem(<<"SetMouseButtonCallback", "SetKeyCallback", "SetCursorEnterCallback",
                 "SetCursorPosCallback", "SetScrollCallback", "SetCharCallback">>)>>

\* icon: the SetIcon option was given
NewWindowBody(icon) ==
    <<CallItem(<<"WindowHint", "WindowHint", "WindowHint", "WindowHint", "WindowHint",
                 "WindowHint", "WindowHint", "WindowHint", "WindowHint",
                 "CreateWindow">> \o beginNatives(TRUE))>>
    \o (IF icon THEN <<CallItem(<<"SetIcon">>)>> ELSE <<>>)
    \o <<GoItem("vsync")>>
    \o initInputBody
    \o MonitorBody
    \o UpdateBody(FALSE)

MethodNames ==
    {"NewWindow", "Destroy", "Update", "UpdateInput", "SetClosed", "Closed", "SetTitle",
     "SetBounds", "SetPos", "GetPos", "Bounds", "SetMonitor", "Monitor", "Focused",
     "SetVSync", "VSync", "SetCursorVisible", "CursorVisible", "SetMousePosition"}

\* the statements of method m; a: the branch it takes
Body(m, a) ==
    CASE m = "NewWindow"        -> NewWindowBody(a)
      [] m = "Destroy"          -> <<CallItem(<<"Destroy">>)>>
      [] m = "Update"           -> UpdateBody(a)
      [] m = "UpdateInput"      -> UpdateInputBody(a)
      [] m = "SetClosed"        -> <<CallItem(<<"SetShouldClose">>)>>
      [] m = "Closed"           -> <<CallItem(<<"ShouldClose">>)>>
      [] m = "SetTitle"         -> <<CallItem(<<"SetTitle">>)>>
      [] m = "SetBounds"        -> <<GoItem("bounds"), CallItem(<<"SetSize">>)>>
      [] m = "SetPos"           -> <<CallItem(<<"SetPos">>)>>
      [] m = "GetPos"           -> <<CallItem(<<"GetPos">>)>>
      [] m = "Bounds"           -> <<>>
      [] m = "SetMonitor"       -> SetMonitorBody(a)
      [] m = "Monitor"          -> MonitorBody
      [] m = "Focused"          -> <<CallItem(<<"GetAttrib">>)>>
      [] m = "SetVSync"         -> <<GoItem("vsync")>>
      [] m = "VSync"            -> <<>>
      [] m = "SetCursorVisible" -> <<GoItem("cursorVisible"), CallItem(<<"SetInputMode">>)>>
      [] m = "CursorVisible"    -> <<>>
      [] m = "SetMousePosition" ->
            <<CallItem(IF a THEN <<"SetCursorPos">> ELSE <<>>)>>

\* mainthread.Call runs the closure on the main thread and waits for it; a
\* direct call runs on the thread of the caller
Events(caller, item) ==
    [i \in 1..Len(item.natives) |->
        [native |-> item.natives[i],
         thread |-> IF item.kind = "call" THEN MainThread ELSE caller]]

RECURSIVE Run(_, _)
Run(caller, body) ==
    IF body = <<>> THEN <<>>
    ELSE Events(caller, Head(body)) \o Run(caller, Tail(body))

\* thread caller calls method m, which takes branch a
Invoke(m, a, caller) ==
    /\ UNCHANGED <<winVars, natVars>>
    /\ Hist([op |-> "Invoke", method |-> m, arg |-> a, caller |-> caller,
             trace |-> Run(caller, Body(m, a))])

\* the statements have a main-thread closure in which glfw.SwapInterval is
\* followed at once by SwapBuffers
SwapIntervalRightBeforeSwap(body) ==
    \E k \in DOMAIN body :
        /\ body[k].kind = "call"
        /\ \E i \in 1..(Len(body[k].natives) - 1) :
               /\ body[k].natives[i] = "SwapInterval"
               /\ body[k].natives[i + 1] = "SwapBuffers"

InitThreads == InitState(2)
NextThreads == \E m \in MethodNames, a \in BOOLEAN, caller \in Callers : Invoke(m, a, caller)
SpecThreads == InitThreads /\ [][NextThreads]_vars

\* C28: whichever thread calls a method of the Window, every native call the
\* method makes runs on the main thread.
NativeCallsOnMainThread ==
    lastOp.op = "Invoke" =>
        \A i \in DOMAIN lastOp.trace : lastOp.trace[i].thread = MainThread

\* an Update called from the update thread after a SetMonitor from the
\* finalizer thread, with the events and a new gamepad polled
NativeCallsOnMainThreadWitness ==
    /\ prevOp.op = "Invoke" /\ prevOp.method = "SetMonitor" /\ prevOp.caller = "finalizer"
    /\ lastOp.op = "Invoke" /\ lastOp.method = "Update" /\ lastOp.caller = "update"
    /\ \E i \in DOMAIN lastOp.trace : lastOp.trace[i].native = "PollEvents"
    /\ \E i \in DOMAIN lastOp.trace : lastOp.trace[i].native = "GetButtons"
    /\ \E i \in DOMAIN lastOp.trace : lastOp.trace[i].native = "SwapBuffers"

(***************************************************************************)
(* Contexts: this Window and another one are created and updated in any    *)
(* order; history of one operation.                                        *)
(***************************************************************************)
ContextSeqs == BSeq({MouseEv(MouseButton1, Press), MouseEv(MouseButton1, Release)}, MaxQueue)

NextContext ==
    \/ \E size \in CreateSizes, cause \in {"", "no graphics device"} :
           NewWindow(size, <<>>, cause, <<>>)
    \/ Created /\ Update(ContextSeqs)
    \/ OtherNewWindow
    \/ \E flag \in BOOLEAN : OtherUpdate(flag, {<<>>})
SpecContext == InitCreate /\ [][NextContext]_vars

\* the window for which the operation o ran begin, if it ran it
BeginTarget(o) ==
    CASE o.op \in {"Update", "NewWindow"}           -> TheWindow
      [] o.op \in {"OtherUpdate", "OtherNewWindow"} -> OtherWindow

\* C26: currWin always names the window whose context is bound, one context
\* being bound at a time, and an operation that ran begin for a window called
\* MakeContextCurrent exactly when currWin was another window or none.
OneCurrentContext ==
    /\ currWin = natContext
    /\ (lastOp.op \in {"Update", "OtherUpdate", "OtherNewWindow"}
          \/ (lastOp.op = "NewWindow" /\ lastOp.w # NoWindow))
       => ( /\ lastOp.made <=> lastOp.pre.currWin # BeginTarget(lastOp)
            /\ currWin = BeginTarget(lastOp) )
    /\ (lastOp.op = "NewWindow" /\ lastOp.w = NoWindow) => ~lastOp.made

\* an Update of this Window that had to take the context from the other one,
\* with events polled
OneCurrentContextWitness ==
    /\ lastOp.op = "Update" /\ lastOp.made
    /\ lastOp.pre.currWin = OtherWindow
    /\ lastOp.polled # <<>>
    /\ currWin = TheWindow /\ natContext = TheWindow

\* an Update of this Window that found its context bound already
ContextKeptWitness ==
    /\ lastOp.op = "Update" /\ ~lastOp.made
    /\ lastOp.pre.currWin = TheWindow

(***************************************************************************)
(* The swap interval: SetVSync, Updates of this Window and of another one; *)
(* history of two operations.                                              *)
(***************************************************************************)
VSyncSeqs == BSeq({MouseEv(MouseButton1, Press), MouseEv(MouseButton1, Release)}, MaxPoll)

InitVSync == InitState(2)
NextVSync ==
    \/ \E x \in BOOLEAN : SetVSync(x)
    \/ Update(VSyncSeqs)
    \/ OtherNewWindow
    \/ \E flag \in BOOLEAN : OtherUpdate(flag, {<<>>})
SpecVSync == InitVSync /\ [][NextVSync]_vars

\* C27: the swap interval of an Update is 1 if the vsync flag is set at that
\* Update and 0 otherwise; the Update right after SetVSync(x) swaps with 1 if x
\* and 0 otherwise, whatever the interval was before.
SwapIntervalFollowsVSync ==
    /\ lastOp.op = "Update" => swapInterval = (IF vsync THEN 1 ELSE 0)
    /\ lastOp.op = "Update" => SwapIntervalRightBeforeSwap(UpdateBody(lastOp.made))
    /\ (lastOp.op = "Update" /\ prevOp.op = "SetVSync")
           => swapInterval = (IF prevOp.vsync THEN 1 ELSE 0)

\* an Update right after SetVSync(FALSE) on a window whose flag was set, the
\* interval left at 1
SwapIntervalFollowsVSyncWitness ==
    /\ lastOp.op = "Update" /\ prevOp.op = "SetVSync"
    /\ ~prevOp.vsync /\ prevOp.pre.vsync /\ prevOp.pre.swapInterval = 1
    /\ swapInterval = 0

(***************************************************************************)
(* Two windows, each updated from its own thread: the Update of this       *)
(* Window runs statement by statement while the other window is updated;   *)
(* history of one operation.                                               *)
(***************************************************************************)
RaceEvents == {ScrollEv(0, Float(1)), CharEv(97), KeyEv(KeySpace, Press)}
RaceSeqs == BSeq(RaceEvents, 1)

\* the scroll and the text pending are short
PendingSmall == Len(tempInp.typed) + Abs(tempInp.scroll.Y) < Float(MaxPoll)

InitRace == InitState(1)
NextRace ==
    \/ UpdateStart({<<>>})
    \/ RotateStep
    \/ UpdateFinish
    \/ pc = "idle" /\ OtherNewWindow
    \/ PendingSmall /\ OtherUpdate(FALSE, RaceSeqs)
SpecRace == InitRace /\ [][NextRace]_vars

\* the rotation has made its first assignment and not yet its last
RotationInProgress(at) == at \in {"prev", "curr", "repeat", "scroll"}

\* C29: no callback writes the pending slot while the rotation of the Window
\* is in progress, and what the rotation clears from the pending slot (repeat
\* flags, scroll, text) is what it has just copied to the current slot, so
\* that nothing delivered is lost.
RotationUninterrupted ==
    /\ (lastOp.op = "OtherUpdate" /\ lastOp.polled # <<>>)
          => ~RotationInProgress(lastOp.pre.pc)
    /\ (lastOp.op = "RotateStep" /\ lastOp.step = "repeat")
          => lastOp.pre.tempInp.scroll = currInp.scroll
    /\ (lastOp.op = "RotateStep" /\ lastOp.step = "scroll")
          => lastOp.pre.tempInp.typed = currInp.typed

\* a scroll delivered between the copy and the clearing: cleared, never shown
ScrollLostWitness ==
    /\ lastOp.op = "RotateStep" /\ lastOp.step = "repeat"
    /\ lastOp.pre.tempInp.scroll # ZV
    /\ currInp.scroll = ZV

(***************************************************************************)
(* The restore record over sequences of SetMonitor (SpecMonitor).          *)
(***************************************************************************)
\* C30: SetMonitor to a monitor on a window that is fullscreen already leaves
\* the restore record with the geometry the window had when it was last
\* windowed, and a SetMonitor(nil) after it puts the window back there.
RestoreHoldsWindowedGeometry ==
    /\ ( /\ lastOp.op = "SetMonitor" /\ lastOp.monitor # NilMonitor
         /\ lastOp.pre.natMonitor # NoMonitor )
       => restore = lastOp.pre.restore
    /\ ( /\ lastOp.op = "SetMonitor" /\ lastOp.monitor = NilMonitor
         /\ prevOp.op = "SetMonitor" /\ prevOp.monitor # NilMonitor
         /\ prevOp.pre.natMonitor # NoMonitor )
       => ( /\ natMonitor = NoMonitor
            /\ natPos = [x |-> prevOp.pre.restore.xpos, y |-> prevOp.pre.restore.ypos]
            /\ natSize = [W |-> prevOp.pre.restore.width, H |-> prevOp.pre.restore.height] )

\* a switch from one monitor straight to another one
MonitorToMonitorWitness ==
    /\ lastOp.op = "SetMonitor" /\ lastOp.monitor # NilMonitor
    /\ lastOp.pre.natMonitor # NoMonitor
    /\ lastOp.pre.natMonitor # lastOp.monitor.monitor

(***************************************************************************)
(* Windows created, updated and destroyed in any order; history of one     *)
(* operation.                                                              *)
(***************************************************************************)
NextDestroy ==
    \/ \E cause \in {"", "no graphics device"} :
           NewWindow([W |-> InitWidth, H |-> InitHeight], <<>>, cause, <<>>)
    \/ Created /\ Update(ContextSeqs)
    \/ Destroy
    \/ OtherNewWindow
    \/ OtherUpdate(FALSE, {<<>>})
    \/ OtherDestroy
SpecDestroy == InitCreate /\ [][NextDestroy]_vars

\* C32: currWin never names a destroyed window, and the window whose handle
\* NewWindow gives glfw.CreateWindow to share with, if any, is a live one.
NoDestroyedWindowUsed ==
    /\ currWin # NoWindow => natWindows[currWin] # "destroyed"
    /\ lastOp.op \in {"NewWindow", "OtherNewWindow"}
         => (lastOp.share = NoWindow \/ lastOp.pre.natWindows[lastOp.share] = "live")

\* a NewWindow that shares with the other window, which has been destroyed
DestroyedShareWitness ==
    /\ lastOp.op = "NewWindow" /\ lastOp.w = TheWindow
    /\ lastOp.share = OtherWindow
    /\ lastOp.pre.natWindows[OtherWindow] = "destroyed"

(***************************************************************************)
(* The implementation of part_000: this Window and another one created and *)
(* updated in any order; history of one operation.                         *)
(***************************************************************************)
\* before NewWindow of part_000: every end has detached the context
InitPart000 == \E cw \in {NoWindow, OtherWindow} : InitNoWindow(cw, NoWindow, 2)
NextPart000 ==
    \/ \E cause \in {"", "no graphics device"} :
           NewWindowPart000([W |-> InitWidth, H |-> InitHeight], cause, <<>>)
    \/ UpdatePart000(ContextSeqs)
    \/ Created /\ \E x \in BOOLEAN : SetVSync(x)
    \/ OtherNewWindowPart000
    \/ \E flag \in BOOLEAN : OtherUpdatePart000(flag)
SpecPart000 == InitPart000 /\ [][NextPart000]_vars

\* C33: at every Update after construction the context of the Window is the
\* current one where Update clears, blits and swaps.
ContextBoundAtSwap ==
    lastOp.op = "UpdatePart000" => lastOp.bound

\* an Update that found currWin naming the Window and no context bound
UnboundSwapWitness ==
    /\ lastOp.op = "UpdatePart000" /\ ~lastOp.bound
    /\ lastOp.pre.currWin = TheWindow /\ lastOp.pre.natContext = NoWindow

\* an Update that took currWin from the other window and bound its context
BoundSwapWitness ==
    /\ lastOp.op = "UpdatePart000" /\ lastOp.bound
    /\ lastOp.pre.currWin = OtherWindow

====
